---- MODULE Spec2Model ----
(***************************************************************************)
(* Model of the Backpack.tf pricer of tf2autobotplus.                      *)
(*                                                                         *)
(* The repository holds two variants of the class BackpackTFPricer:        *)
(*   "ts" : src/src/lib/pricer/bptf/bptf-pricer.ts  (cache record with a   *)
(*          defindexMap, findPriceInData, no relaxation ladder)            *)
(*   "p3" : src/unnamed/part_003  (pricesCache/cacheTime, the nested walk  *)
(*          searchPriceInItems, handleUnusualPrice, getAlternativeSKUs)    *)
(* A pricer object is an instance of one of them; the variable `variant`   *)
(* says which, and every operation is translated per variant.              *)
(*                                                                         *)
(* Money is counted in 1/10000 of a currency unit (2.11 is 21100) so that  *)
(* the percentages and floors of calculateSellPrice are integers.          *)
(*                                                                         *)
(* A value that JavaScript may leave null/undefined is a sequence of       *)
(* length 0 (absent) or 1 (present).                                       *)
(***************************************************************************)
EXTENDS Integers, Sequences, FiniteSets, TLC

VARIABLES
    variant,      \* which BackpackTFPricer class the object is: "ts" or "p3"
    now,          \* Date.now(), in ms
    cache,        \* ts: this.cache, <<>> (null) or <<[data, timestamp, defindexMap]>>
    pricesCache,  \* p3: this.pricesCache, <<>> (null) or <<payload>>
    cacheTime,    \* p3: this.cacheTime
    calls,        \* the asynchronous calls of getPrice / getPricelist / init
    log,          \* what the last step wrote to the console: "none", "warn", "error"
    parsed,       \* resolver runs: the attribute record last looked up, <<>> before
    response,     \* resolver runs: the response getPrice gave for it, <<>> before
    bot,          \* Autokeys runs: the bot's options and key prices, the invocations
                  \* of updateToBuy/Sell/Bank, the updatePrice calls they made and
                  \* what the callbacks reported; <<>> elsewhere
    codec         \* the attribute records SKU.fromObject throws on (none in most runs)

vars == <<variant, now, cache, pricesCache, cacheTime, calls, log, parsed, response, bot, codec>>

Variants == {"ts", "p3"}

(***************************************************************************)
(* The catalog payload.  response.items is an object; here the sequence of *)
(* its entries in Object.entries / for-in order, each                      *)
(*   [name, defindex : sequence of base ids, prices : price tree].         *)
(* A price tree is the function from the label paths that end in a price   *)
(* list to that list: an inner object exists at a path exactly when some   *)
(* list lies below it.  Levels may be missing and a list may sit at any    *)
(* depth.  A price entry is [currency, value, value_raw, value_high].      *)
(***************************************************************************)
IsPrefix(p, q) == Len(p) <= Len(q) /\ SubSeq(q, 1, Len(p)) = p

\* A position inside a price tree while the code descends it ("current").
Undef == [k |-> "undef", p |-> <<>>, i |-> 0]
ObjAt(p) == [k |-> "obj", p |-> p, i |-> 0]
ArrAt(p) == [k |-> "arr", p |-> p, i |-> 0]
EntAt(p, i) == [k |-> "ent", p |-> p, i |-> i]

\* JavaScript truthiness of a position: objects and arrays (even empty) are truthy.
Truthy(cur) == cur.k # "undef"

NodeAt(prices, p) ==
    IF p \in DOMAIN prices THEN ArrAt(p)
    ELSE IF \E q \in DOMAIN prices : IsPrefix(p, q) THEN ObjAt(p)
    ELSE Undef

\* current?.[segment] for a label (a word, or a quality label at the root, which
\* is always an object)
Get(prices, cur, segment) ==
    IF cur.k = "obj" THEN NodeAt(prices, Append(cur.p, segment)) ELSE Undef

\* current?.[n] for a number n: a key of an object, an index of an array
GetNum(prices, cur, n) ==
    IF cur.k = "obj" THEN NodeAt(prices, Append(cur.p, ToString(n)))
    ELSE IF cur.k = "arr" /\ n >= 0 /\ n < Len(prices[cur.p]) THEN EntAt(cur.p, n)
    ELSE Undef

\* the price entry a position denotes, when it is one
EntryOf(prices, cur) == prices[cur.p][cur.i + 1]

Some(x) == <<x>>
None == <<>>

(***************************************************************************)
(* Responses and currencies (both variants)                                *)
(***************************************************************************)
createCurrencies(value, currency) ==
    IF currency = "keys" THEN [keys |-> value, metal |-> 0]
    ELSE [keys |-> 0, metal |-> value]

Max(a, b) == IF a >= b THEN a ELSE b

\* a margin table whose professional row repeats the rate of the killstreak row
PRICE_CONFIGS_ProfessionalAsKillstreak ==
    [unusual      |-> [keyMargin |-> 2, metalMargin |-> 2, minKeyMargin |-> 5000, minMetalMargin |-> 3300],
     australium   |-> [keyMargin |-> 3, metalMargin |-> 3, minKeyMargin |-> 2500, minMetalMargin |-> 2200],
     killstreak   |-> [keyMargin |-> 3, metalMargin |-> 3, minKeyMargin |-> 1000, minMetalMargin |-> 1100],
     professional |-> [keyMargin |-> 3, metalMargin |-> 3, minKeyMargin |-> 1000, minMetalMargin |-> 1100],
     default      |-> [keyMargin |-> 0, metalMargin |-> 0, minKeyMargin |-> 500,  minMetalMargin |-> 1100]]

\* margin rows: rate in percent, floor in 1/10000
PRICE_CONFIGS ==
    [unusual      |-> [keyMargin |-> 2, metalMargin |-> 2, minKeyMargin |-> 5000, minMetalMargin |-> 3300],
     australium   |-> [keyMargin |-> 3, metalMargin |-> 3, minKeyMargin |-> 2500, minMetalMargin |-> 2200],
     killstreak   |-> [keyMargin |-> 3, metalMargin |-> 3, minKeyMargin |-> 1000, minMetalMargin |-> 1100],
     professional |-> [keyMargin |-> 4, metalMargin |-> 4, minKeyMargin |-> 1000, minMetalMargin |-> 1100],
     default      |-> [keyMargin |-> 0, metalMargin |-> 0, minKeyMargin |-> 500,  minMetalMargin |-> 1100]]

\* the margin part of calculateSellPrice (ts), after the test of valueHigh
MarginSell_ts(buyValue, currency, sku) ==
    LET config == IF sku.quality = 5 THEN PRICE_CONFIGS.unusual
                  ELSE IF sku.australium THEN PRICE_CONFIGS.australium
                  ELSE IF sku.killstreak = 3 THEN PRICE_CONFIGS.professional
                  ELSE IF sku.killstreak > 0 THEN PRICE_CONFIGS.killstreak
                  ELSE PRICE_CONFIGS.default
        isKeys == currency = "keys"
        margin == IF isKeys THEN config.keyMargin ELSE config.metalMargin
        minMargin == IF isKeys THEN config.minKeyMargin ELSE config.minMetalMargin
    IN  buyValue + Max(minMargin, (buyValue * margin) \div 100)

\* a comparison that lets an override equal to the bid through
calculateSellPrice_ts_NotLess(buyValue, currency, valueHigh, sku) ==
    IF valueHigh # None /\ valueHigh[1] # 0 /\ valueHigh[1] >= buyValue THEN valueHigh[1]
    ELSE MarginSell_ts(buyValue, currency, sku)

calculateSellPrice_ts(buyValue, currency, valueHigh, sku) ==
    IF valueHigh # None /\ valueHigh[1] # 0 /\ valueHigh[1] > buyValue THEN valueHigh[1]
    ELSE MarginSell_ts(buyValue, currency, sku)

\* a tail whose two units both get the metal floor
DefaultSell_p3_MetalFloorOnly(buyValue, currency) ==
    IF currency = "metal" THEN buyValue + 1100
    ELSE IF currency = "keys" THEN buyValue + 1100
    ELSE buyValue

\* the tail of calculateSellPrice (p3) for an item no category test caught
DefaultSell_p3(buyValue, currency) ==
    IF currency = "metal" THEN buyValue + 1100
    ELSE IF currency = "keys" THEN buyValue + 500
    ELSE buyValue

\* a category chain that tests australium before quality 5
MarginSell_p3_AustraliumFirst(buyValue, currency, sku) ==
    IF sku.australium THEN
        IF currency = "keys" THEN buyValue + Max(2500, (buyValue * 3) \div 100)
        ELSE buyValue + Max(2200, (buyValue * 3) \div 100)
    ELSE IF sku.quality = 5 THEN
        IF currency = "keys" THEN buyValue + Max(5000, (buyValue * 2) \div 100)
        ELSE buyValue + Max(3300, (buyValue * 2) \div 100)
    ELSE IF sku.killstreak > 0 THEN
        LET ksMultiplier == IF sku.killstreak = 3 THEN 4 ELSE 3
        IN  IF currency = "keys" THEN buyValue + Max(1000, (buyValue * ksMultiplier) \div 100)
            ELSE buyValue + Max(1100, (buyValue * ksMultiplier) \div 100)
    ELSE DefaultSell_p3(buyValue, currency)

\* the margin part of calculateSellPrice (p3), after the test of valueHigh
MarginSell_p3(buyValue, currency, sku) ==
    IF sku.quality = 5 THEN
        IF currency = "keys" THEN buyValue + Max(5000, (buyValue * 2) \div 100)
        ELSE buyValue + Max(3300, (buyValue * 2) \div 100)
    ELSE IF sku.australium THEN
        IF currency = "keys" THEN buyValue + Max(2500, (buyValue * 3) \div 100)
        ELSE buyValue + Max(2200, (buyValue * 3) \div 100)
    ELSE IF sku.killstreak > 0 THEN
        LET ksMultiplier == IF sku.killstreak = 3 THEN 4 ELSE 3
        IN  IF currency = "keys" THEN buyValue + Max(1000, (buyValue * ksMultiplier) \div 100)
            ELSE buyValue + Max(1100, (buyValue * ksMultiplier) \div 100)
    ELSE DefaultSell_p3(buyValue, currency)

\* an override taken whenever it is present
calculateSellPrice_p3_AnyOverride(buyValue, currency, valueHigh, sku) ==
    IF valueHigh # None THEN valueHigh[1]
    ELSE MarginSell_p3(buyValue, currency, sku)

calculateSellPrice_p3(buyValue, currency, valueHigh, sku) ==
    IF valueHigh # None /\ valueHigh[1] > buyValue THEN valueHigh[1]
    ELSE MarginSell_p3(buyValue, currency, sku)

createErrorResponse(message) ==
    [buy |-> None, sell |-> None, message |-> message]

createPriceResponse_ts(priceEntry, sku) ==
    LET currency == priceEntry.currency
        buyValue == IF priceEntry.value_raw # None THEN priceEntry.value_raw[1] ELSE priceEntry.value
        valueHigh == priceEntry.value_high
    IN  [buy |-> Some(createCurrencies(buyValue, currency)),
         sell |-> Some(createCurrencies(calculateSellPrice_ts(buyValue, currency, valueHigh, sku), currency)),
         message |-> ""]

createPriceResponse_p3(priceEntry, sku) ==
    LET currency == priceEntry.currency
        buyValue == IF priceEntry.value_raw # None THEN priceEntry.value_raw[1] ELSE priceEntry.value
        valueHigh == priceEntry.value_high
    IN  [buy |-> Some(createCurrencies(buyValue, currency)),
         sell |-> Some(createCurrencies(calculateSellPrice_p3(buyValue, currency, valueHigh, sku), currency)),
         message |-> ""]

(***************************************************************************)
(* Variant "ts": the label path and the descent of one candidate           *)
(***************************************************************************)
killstreakNames == <<"Killstreak", "Specialized Killstreak", "Professional Killstreak">>

TradableLabel(sku) == IF sku.tradable THEN "Tradable" ELSE "Non-Tradable"
CraftableLabel(sku) == IF sku.craftable THEN "Craftable" ELSE "Non-Craftable"

\* String(parsed.quality || 6)
QualityLabel(sku) == ToString(IF sku.quality # 0 THEN sku.quality ELSE 6)

buildPricePath(sku) ==
    <<QualityLabel(sku), TradableLabel(sku), CraftableLabel(sku),
      IF sku.killstreak > 0 /\ sku.killstreak <= 3 THEN killstreakNames[sku.killstreak] ELSE "Normal",
      IF sku.quality2 = Some(11) THEN "Strange" ELSE "Normal",
      IF sku.australium THEN "Australium" ELSE "Normal",
      IF sku.festive THEN "Festive" ELSE "Normal">>

\* the for-loop of findPriceInData from segment n on; Undef is "return null"
RECURSIVE WalkPath_ts(_, _, _, _)
WalkPath_ts(prices, current, path, n) ==
    IF n > Len(path) THEN current
    ELSE IF ~Truthy(Get(prices, current, path[n])) THEN
        IF path[n] # "Normal" /\ Truthy(Get(prices, current, "Normal"))
        THEN WalkPath_ts(prices, Get(prices, current, "Normal"), path, n + 1)
        ELSE Undef
    ELSE WalkPath_ts(prices, Get(prices, current, path[n]), path, n + 1)

\* effect !== undefined && current?.[effect]: parsed.effect is null or a number,
\* and no object of the tree has the key "null"
EffectStep_ts(prices, current, effect) ==
    IF effect # None /\ Truthy(GetNum(prices, current, effect[1]))
    THEN GetNum(prices, current, effect[1])
    ELSE current

findPriceInData(prices, path, effect) ==
    LET walked == WalkPath_ts(prices, ObjAt(<<>>), path, 1)
        current == IF Truthy(walked) THEN EffectStep_ts(prices, walked, effect) ELSE Undef
    IN  IF current.k = "arr" /\ Len(prices[current.p]) > 0
        THEN Some(EntryOf(prices, EntAt(current.p, 0)))
        ELSE None

(***************************************************************************)
(* Variant "ts": the base-id index and the lookup of getPrice              *)
(***************************************************************************)
\* the names pushed for one defindex by the double loop over the first n entries
RECURSIVE NamesFor(_, _, _)
NamesFor(items, defindex, n) ==
    IF n = 0 THEN <<>>
    ELSE LET itemData == items[n]
             pushes == SelectSeq(itemData.defindex, LAMBDA d : d = defindex)
         IN  NamesFor(items, defindex, n - 1) \o [j \in 1..Len(pushes) |-> itemData.name]

\* an index that keeps, for each base id, only the last entry declaring it
buildDefindexMap_LastOnly(items) ==
    [d \in UNION {{items[n].defindex[j] : j \in 1..Len(items[n].defindex)} : n \in 1..Len(items)}
        |-> <<NamesFor(items, d, Len(items))[Len(NamesFor(items, d, Len(items)))]>>]

buildDefindexMap(items) ==
    [d \in UNION {{items[n].defindex[j] : j \in 1..Len(items[n].defindex)} : n \in 1..Len(items)}
        |-> NamesFor(items, d, Len(items))]

\* data.response.items[itemName]
ItemsNamed(items, itemName) ==
    SelectSeq(items, LAMBDA it : it.name = itemName)

\* the loop over itemNames of getPrice, from the n-th name on
RECURSIVE CandidateLoop_ts(_, _, _, _)
CandidateLoop_ts(items, itemNames, sku, n) ==
    IF n > Len(itemNames) THEN createErrorResponse("Price not found")
    ELSE LET found == ItemsNamed(items, itemNames[n])
         IN  IF found = <<>> THEN CandidateLoop_ts(items, itemNames, sku, n + 1)
             ELSE LET priceEntry == findPriceInData(found[1].prices, buildPricePath(sku), sku.effect)
                  IN  IF priceEntry # None THEN createPriceResponse_ts(priceEntry[1], sku)
                      ELSE CandidateLoop_ts(items, itemNames, sku, n + 1)

\* getPrice after `await this.fetchPrices()`: held is this.cache at that moment,
\* items is data.response.items
lookup_ts(held, items, sku) ==
    LET itemNames == IF held # None /\ sku.defindex \in DOMAIN held[1].defindexMap
                     THEN held[1].defindexMap[sku.defindex] ELSE <<>>
    IN  IF Len(itemNames) = 0 THEN createErrorResponse("Item not found")
        ELSE CandidateLoop_ts(items, itemNames, sku, 1)

(***************************************************************************)
(* Variant "p3": the nested walk, the unusual lookup and the alternatives  *)
(***************************************************************************)
killstreakMap == [n \in 0..3 |-> IF n = 0 THEN "Normal" ELSE killstreakNames[n]]

getPriceKeys(sku) ==
    <<IF sku.killstreak \in DOMAIN killstreakMap THEN killstreakMap[sku.killstreak] ELSE "Normal",
      IF sku.quality2 = Some(11) THEN "Strange" ELSE "Normal",
      IF sku.australium THEN "Australium" ELSE "Normal",
      IF sku.festive THEN "Festive" ELSE "Normal">>

\* the for-loop of findPriceInNestedStructure from key n on; Undef is "return null"
RECURSIVE WalkKeys_p3(_, _, _, _)
WalkKeys_p3(prices, current, keys, n) ==
    IF n > Len(keys) THEN current
    ELSE IF current.k \notin {"obj", "arr", "ent"} THEN Undef
    ELSE IF Truthy(Get(prices, current, keys[n]))
        THEN WalkKeys_p3(prices, Get(prices, current, keys[n]), keys, n + 1)
    ELSE IF keys[n] # "Normal" /\ Truthy(Get(prices, current, "Normal"))
        THEN WalkKeys_p3(prices, Get(prices, current, "Normal"), keys, n + 1)
    ELSE Undef

findPriceInNestedStructure(prices, data, keys) ==
    LET current == WalkKeys_p3(prices, data, keys, 1)
    IN  IF current.k = "arr" /\ Len(prices[current.p]) > 0
        THEN Some(EntryOf(prices, EntAt(current.p, 0)))
        ELSE None

\* qualityData?.[tradable]?.[craftable] below qualities[quality]
BaseStructure(prices, quality, sku) ==
    Get(prices, Get(prices, Get(prices, ObjAt(<<>>), quality), TradableLabel(sku)), CraftableLabel(sku))

HasEffect(sku) == sku.effect # None /\ sku.effect[1] # 0

fallbackKeys == <<"Normal", "Normal", "Normal", "Normal">>

\* the body of searchPriceInItems' loop for one item: the entry found, or None (continue)
SearchItem_p3(item, sku) ==
    LET prices == item.prices
        baseStructure == BaseStructure(prices, QualityLabel(sku), sku)
        plain == sku.killstreak = 0 /\ sku.quality2 # Some(11) /\ ~sku.australium
                 /\ ~sku.festive /\ ~HasEffect(sku)
        priceEntry == findPriceInNestedStructure(prices, baseStructure, getPriceKeys(sku))
        fallbackEntry == findPriceInNestedStructure(prices, baseStructure, fallbackKeys)
    IN  IF ~\E j \in 1..Len(item.defindex) : item.defindex[j] = sku.defindex THEN None
        ELSE IF ~Truthy(baseStructure) THEN None
        ELSE IF plain /\ baseStructure.k = "arr" /\ Len(prices[baseStructure.p]) > 0
            THEN Some(EntryOf(prices, EntAt(baseStructure.p, 0)))
        ELSE IF priceEntry # None THEN priceEntry
        ELSE fallbackEntry

RECURSIVE searchPriceInItemsFrom(_, _, _, _)
searchPriceInItemsFrom(responseSku, sku, items, n) ==
    IF n > Len(items) THEN [buy |-> None, sell |-> None, message |-> ""]
    ELSE LET found == SearchItem_p3(items[n], sku)
         IN  IF found # None THEN createPriceResponse_p3(found[1], responseSku)
             ELSE searchPriceInItemsFrom(responseSku, sku, items, n + 1)

\* createPriceResponse is given the record searched for (parsedSKU), line 359/367/374
searchPriceInItems(sku, items) == searchPriceInItemsFrom(sku, sku, items, 1)

\* the body of handleUnusualPrice's loop for one item
UnusualItem_p3(item, sku) ==
    LET prices == item.prices
        baseStructure == BaseStructure(prices, "5", sku)
        effectPrices == GetNum(prices, baseStructure, sku.effect[1])
        priceEntry == IF effectPrices.k = "arr"
                      THEN (IF Len(prices[effectPrices.p]) > 0 THEN EntAt(effectPrices.p, 0) ELSE Undef)
                      ELSE effectPrices
    IN  IF ~\E j \in 1..Len(item.defindex) : item.defindex[j] = sku.defindex THEN None
        ELSE IF ~Truthy(baseStructure) THEN None
        ELSE IF HasEffect(sku) /\ Truthy(effectPrices) /\ priceEntry.k = "ent"
            THEN Some(EntryOf(prices, priceEntry))
        ELSE None

RECURSIVE handleUnusualPriceFrom(_, _, _)
handleUnusualPriceFrom(sku, items, n) ==
    IF n > Len(items) THEN createErrorResponse("Unusual effect not found in price data")
    ELSE LET found == UnusualItem_p3(items[n], sku)
         IN  IF found # None THEN createPriceResponse_p3(found[1], sku)
             ELSE handleUnusualPriceFrom(sku, items, n + 1)

handleUnusualPrice(sku, items) == handleUnusualPriceFrom(sku, items, 1)

getAlternativeSKUs(sku) ==
    (IF sku.killstreak > 0 THEN <<[sku EXCEPT !.killstreak = 0]>> ELSE <<>>)
    \o (IF sku.quality2 = Some(11) THEN <<[sku EXCEPT !.quality2 = None]>> ELSE <<>>)
    \o (IF sku.festive THEN <<[sku EXCEPT !.festive = FALSE]>> ELSE <<>>)
    \o <<[sku EXCEPT !.killstreak = 0, !.quality2 = None, !.australium = FALSE,
                     !.festive = FALSE, !.effect = None]>>

RECURSIVE AlternativesLoop_p3(_, _, _)
AlternativesLoop_p3(alternatives, items, n) ==
    IF n > Len(alternatives) THEN createErrorResponse("Price not found in Backpack.tf data")
    ELSE LET altResult == searchPriceInItems(alternatives[n], items)
         IN  IF altResult.buy # None THEN altResult
             ELSE AlternativesLoop_p3(alternatives, items, n + 1)

\* getPrice after `await this.fetchPrices()`; normalizeSKUForSearch only drops
\* paint and wear, which no label depends on
lookup_p3(items, sku) ==
    IF sku.quality = 5 /\ HasEffect(sku) THEN handleUnusualPrice(sku, items)
    ELSE LET mainResult == searchPriceInItems(sku, items)
         IN  IF mainResult.buy # None THEN mainResult
             ELSE AlternativesLoop_p3(getAlternativeSKUs(sku), items, 1)

\* a range test that forgot the lower end
isItemSupported_UpperOnly(sku) == ~(sku.quality > 15)

\* isItemSupported (p3) and the quality test of getPrice (ts); the deny-list is empty
isItemSupported(sku) == ~(sku.quality < 0 \/ sku.quality > 15)

(***************************************************************************)
(* The extraction of getPricelist.  The traversal is modelled as the       *)
(* sequence of leaves it hands to addItemToList, in the order of the       *)
(* loops, and addItemToList as a fold over that sequence.                  *)
(***************************************************************************)
\* the order in which the string keys of a payload object are enumerated
\* (the order they are written in); integer-like keys come first, ascending
LabelOrder ==
    <<"Tradable", "Non-Tradable", "Craftable", "Non-Craftable", "Normal", "Killstreak",
      "Specialized Killstreak", "Professional Killstreak", "Strange", "Australium", "Festive">>

NumericKeys == [n \in 1..21 |-> ToString(n - 1)]

\* !isNaN(parseInt(key)) / !isNaN(Number(key)) and the number read
IsNumericKey(key) == \E n \in 1..Len(NumericKeys) : NumericKeys[n] = key
NumberOf(key) == (CHOOSE n \in 1..Len(NumericKeys) : NumericKeys[n] = key) - 1

\* Object.entries(data) / for (key in data) of the object at path p
ObjectKeys(prices, p) ==
    LET below == {q \in DOMAIN prices : IsPrefix(p, q) /\ Len(q) > Len(p)}
    IN  SelectSeq(NumericKeys \o LabelOrder, LAMBDA l : \E q \in below : q[Len(p) + 1] = l)

\* the attributes object built along the path: a field is None until it is set
EmptyAttributes ==
    [quality |-> None, killstreak |-> None, quality2 |-> None, australium |-> None,
     festive |-> None, effect |-> None]

\* { ...baseSKU, ...attributes } as SKU.fromObject reads it: a missing killstreak
\* is 0, a missing flag false, an effect of 0 none
FullSKU(baseSKU, attributes) ==
    [defindex |-> baseSKU.defindex,
     quality |-> IF attributes.quality # None THEN attributes.quality[1] ELSE baseSKU.quality,
     tradable |-> baseSKU.tradable, craftable |-> baseSKU.craftable,
     killstreak |-> IF attributes.killstreak # None THEN attributes.killstreak[1] ELSE 0,
     quality2 |-> attributes.quality2,
     australium |-> attributes.australium = Some(TRUE),
     festive |-> attributes.festive = Some(TRUE),
     effect |-> IF attributes.effect = Some(0) THEN None ELSE attributes.effect]

parseAttributeKey(key, currentAttributes) ==
    CASE key = "Killstreak" -> [currentAttributes EXCEPT !.killstreak = Some(1)]
      [] key = "Specialized Killstreak" -> [currentAttributes EXCEPT !.killstreak = Some(2)]
      [] key = "Professional Killstreak" -> [currentAttributes EXCEPT !.killstreak = Some(3)]
      [] key = "Strange" -> [currentAttributes EXCEPT !.quality2 = Some(11)]
      [] key = "Australium" -> [currentAttributes EXCEPT !.australium = Some(TRUE)]
      [] key = "Festive" -> [currentAttributes EXCEPT !.festive = Some(TRUE)]
      [] OTHER -> IF IsNumericKey(key) /\ currentAttributes.quality = Some(5)
                  THEN [currentAttributes EXCEPT !.effect = Some(NumberOf(key))]
                  ELSE currentAttributes

\* the attribute step of processNestedPrices (p3)
NestedAttributes_p3(key, attributes, baseSKU) ==
    IF key = "Normal" THEN [attributes EXCEPT !.killstreak = Some(0)]
    ELSE IF key = "Killstreak" THEN [attributes EXCEPT !.killstreak = Some(1)]
    ELSE IF key = "Specialized Killstreak" THEN [attributes EXCEPT !.killstreak = Some(2)]
    ELSE IF key = "Professional Killstreak" THEN [attributes EXCEPT !.killstreak = Some(3)]
    ELSE IF key = "Strange" THEN [attributes EXCEPT !.quality2 = Some(11)]
    ELSE IF key = "Australium" THEN [attributes EXCEPT !.australium = Some(TRUE)]
    ELSE IF key = "Festive" THEN [attributes EXCEPT !.festive = Some(TRUE)]
    ELSE IF IsNumericKey(key) /\ baseSKU.quality = 5 THEN [attributes EXCEPT !.effect = Some(NumberOf(key))]
    ELSE attributes

Leaf(baseSKU, attributes, priceEntry) ==
    [baseSKU |-> baseSKU, attributes |-> attributes, priceEntry |-> priceEntry]

RECURSIVE extractPricesRecursively(_, _, _, _, _)
RECURSIVE ExtractEntries_ts(_, _, _, _, _, _, _)
\* the leaves reached from the node at path p (ts), in order
extractPricesRecursively(prices, p, baseSKU, attributes, depth) ==
    IF depth > 6 THEN <<>>
    ELSE IF p \in DOMAIN prices
        THEN (IF Len(prices[p]) > 0 THEN <<Leaf(baseSKU, attributes, prices[p][1])>> ELSE <<>>)
    ELSE ExtractEntries_ts(prices, p, ObjectKeys(prices, p), 1, baseSKU, attributes, depth)

\* its loop over Object.entries(data), from the n-th key on
ExtractEntries_ts(prices, p, keys, n, baseSKU, attributes, depth) ==
    IF n > Len(keys) THEN <<>>
    ELSE extractPricesRecursively(prices, Append(p, keys[n]), baseSKU,
                                  parseAttributeKey(keys[n], attributes), depth + 1)
         \o ExtractEntries_ts(prices, p, keys, n + 1, baseSKU, attributes, depth)

RECURSIVE processNestedPrices(_, _, _, _, _)
RECURSIVE NestedEntries_p3(_, _, _, _, _, _, _)
\* the leaves reached from the node at path p (p3), in order
processNestedPrices(prices, p, baseSKU, depth, attributes) ==
    IF depth > 10 THEN <<>>
    ELSE IF p \in DOMAIN prices /\ Len(prices[p]) > 0
        THEN <<Leaf(baseSKU, attributes, prices[p][1])>>
    ELSE NestedEntries_p3(prices, p, ObjectKeys(prices, p), 1, baseSKU, depth, attributes)

\* its loop `for (const key in data)`, from the n-th key on
NestedEntries_p3(prices, p, keys, n, baseSKU, depth, attributes) ==
    IF n > Len(keys) THEN <<>>
    ELSE processNestedPrices(prices, Append(p, keys[n]), baseSKU, depth + 1,
                             NestedAttributes_p3(keys[n], attributes, baseSKU))
         \o NestedEntries_p3(prices, p, keys, n + 1, baseSKU, depth, attributes)

\* the paths one level below the paths ps, in the order of the nested loops
RECURSIVE ExpandLevel(_, _, _)
ExpandLevel(prices, ps, n) ==
    IF n > Len(ps) THEN <<>>
    ELSE [k \in 1..Len(ObjectKeys(prices, ps[n])) |-> Append(ps[n], ObjectKeys(prices, ps[n])[k])]
         \o ExpandLevel(prices, ps, n + 1)

\* the quality / tradable / craftable loops: the paths of priceData, in order.
\* A price list above the craftable level is enumerated by its indices and
\* then by the fields of its entries, which the recursion returns from at
\* once: such a list contributes no node.
CraftableNodes(prices) ==
    ExpandLevel(prices, ExpandLevel(prices, ExpandLevel(prices, << <<>> >>, 1), 1), 1)

\* the same loops in p3: every quality, then the two tradable and the two
\* craftable labels by name; a label that is missing is passed over
CraftableNodes_p3(prices) ==
    SelectSeq(CraftableNodes(prices),
              LAMBDA q : /\ q[2] \in {"Tradable", "Non-Tradable"}
                         /\ q[3] \in {"Craftable", "Non-Craftable"})

BaseSKUOf(defindex, p) ==
    [defindex |-> defindex, quality |-> NumberOf(p[1]),
     tradable |-> p[2] = "Tradable", craftable |-> p[3] = "Craftable"]

\* processQualityData (ts) / the loops of getPricelist below one defindex (p3)
RECURSIVE processQualityData(_, _, _, _, _)
processQualityData(class, prices, defindex, nodes, n) ==
    IF n > Len(nodes) THEN <<>>
    ELSE (IF class = "ts"
          THEN extractPricesRecursively(prices, nodes[n], BaseSKUOf(defindex, nodes[n]), EmptyAttributes, 0)
          ELSE processNestedPrices(prices, nodes[n], BaseSKUOf(defindex, nodes[n]), 0, EmptyAttributes))
         \o processQualityData(class, prices, defindex, nodes, n + 1)

\* processItemData: the loop over itemData.defindex, from the n-th id on
RECURSIVE processItemData(_, _, _)
processItemData(class, itemData, n) ==
    IF n > Len(itemData.defindex) THEN <<>>
    ELSE processQualityData(class, itemData.prices, itemData.defindex[n],
                            IF class = "ts" THEN CraftableNodes(itemData.prices)
                            ELSE CraftableNodes_p3(itemData.prices), 1)
         \o processItemData(class, itemData, n + 1)

\* the loop over response.items, from the n-th entry on: every leaf handed to
\* addItemToList, in order
RECURSIVE LeavesOf(_, _, _)
LeavesOf(class, items, n) ==
    IF n > Len(items) THEN <<>>
    ELSE processItemData(class, items[n], 1) \o LeavesOf(class, items, n + 1)

\* an addItemToList that never looks at processedSKUs
addItemToList_NoDedup(class, leaf, list) ==
    LET fullSKU == FullSKU(leaf.baseSKU, leaf.attributes)
        quote == IF class = "ts" THEN createPriceResponse_ts(leaf.priceEntry, fullSKU)
                 ELSE createPriceResponse_p3(leaf.priceEntry, fullSKU)
    IN  [items |-> Append(list.items, [sku |-> fullSKU, buy |-> quote.buy[1], sell |-> quote.sell[1]]),
         processedSKUs |-> list.processedSKUs \cup {fullSKU}]

\* addItemToList: list is [items, processedSKUs]; the key is the record
\* SKU.fromObject(fullSKU).toString() encodes
addItemToList(class, leaf, list) ==
    LET fullSKU == FullSKU(leaf.baseSKU, leaf.attributes)
        skuString == fullSKU
        quote == IF class = "ts" THEN createPriceResponse_ts(leaf.priceEntry, fullSKU)
                 ELSE createPriceResponse_p3(leaf.priceEntry, fullSKU)
    IN  IF skuString \in list.processedSKUs THEN list
        ELSE [items |-> Append(list.items, [sku |-> skuString, buy |-> quote.buy[1], sell |-> quote.sell[1]]),
              processedSKUs |-> list.processedSKUs \cup {skuString}]

\* an addItemToList whose catch discards what was collected so far
addItemToListCaught_DropAll(class, leaf, list, rejected) ==
    IF FullSKU(leaf.baseSKU, leaf.attributes) \in rejected
    THEN [items |-> <<>>, processedSKUs |-> list.processedSKUs]
    ELSE addItemToList(class, leaf, list)

\* the try / catch of addItemToList: SKU.fromObject is its first call that can
\* throw, before processedSKUs is read or written; the catch returns
addItemToListCaught(class, leaf, list, rejected) ==
    IF FullSKU(leaf.baseSKU, leaf.attributes) \in rejected
    THEN list
    ELSE addItemToList(class, leaf, list)

RECURSIVE AddLeaves(_, _, _, _, _)
AddLeaves(class, leaves, n, list, rejected) ==
    IF n > Len(leaves) THEN list
    ELSE AddLeaves(class, leaves, n + 1,
                   addItemToListCaught(class, leaves[n], list, rejected), rejected)

\* the items getPricelist of a class builds from data.response.items when the
\* codec throws on the records of rejected
extractItemsWith(class, items, rejected) ==
    AddLeaves(class, LeavesOf(class, items, 1), 1,
              [items |-> <<>>, processedSKUs |-> {}], rejected).items

\* the same with a codec that accepts every record
extractItemsOf(class, items) == extractItemsWith(class, items, {})

(***************************************************************************)
(* getPrice run to completion on a pricer that holds a fresh catalog (the  *)
(* fetch is served from the cache); items is the held response.items       *)
(***************************************************************************)
HeldItems ==
    IF variant = "ts" THEN (IF cache = None THEN <<>> ELSE cache[1].data)
    ELSE (IF pricesCache = None THEN <<>> ELSE pricesCache[1])

getPriceHeld(sku) ==
    IF ~isItemSupported(sku)
    THEN createErrorResponse(IF variant = "ts" THEN "Invalid quality" ELSE "Item not supported")
    ELSE IF variant = "ts" THEN lookup_ts(cache, HeldItems, sku)
    ELSE lookup_p3(HeldItems, sku)

(***************************************************************************)
(* The inputs of the resolver runs                                         *)
(***************************************************************************)
MaxList == 2        \* longest price list of a synthetic catalog

T == "Tradable"
C == "Craftable"
N == "Normal"
SK == "Specialized Killstreak"

\* the label paths a synthetic price tree may hold a list at
TreePaths ==
    << <<"6", T, C>>,
       <<"6", T, C, N, N, N, N>>,
       <<"6", T, C, SK, "Strange", N, N>>,
       <<"6", T, C, N, "Strange", N, N>>,
       <<"6", T, C, N, N, N, "Festive">>,
       <<"5", T, C>>,
       <<"5", T, C, N, N, N, N>>,
       <<"5", T, C, N, N, N, N, "13">>,
       <<"5", T, C, "13">>,
       <<"0", T, C, N, N, N, N>> >>

\* every price entry of a synthetic catalog has its own value: entry e of the
\* catalog, path number j, position i of the list
PriceList(e, j, len) ==
    [i \in 1..len |-> [currency |-> "metal", value |-> 100 * (1000 * e + 10 * j + i),
                       value_raw |-> None, value_high |-> None]]

PrefixFree(J) ==
    \A a \in J, b \in J : a # b => ~IsPrefix(TreePaths[a], TreePaths[b])

Tree(e, J, len) ==
    [p \in {TreePaths[j] : j \in J} |->
        PriceList(e, CHOOSE j \in J : TreePaths[j] = p, len)]

PathSets(n) == {J \in SUBSET (1..Len(TreePaths)) : Cardinality(J) \in 1..n /\ PrefixFree(J)}

Item(e, defindex, J, len) ==
    [name |-> IF e = 1 THEN "Item A" ELSE "Item B", defindex |-> defindex, prices |-> Tree(e, J, len)]

\* one entry with up to two lists, or two entries with one list each
Catalogs ==
    {<<Item(1, d, J, len)>> : d \in {<<100>>, <<200, 100>>}, J \in PathSets(2), len \in 0..MaxList}
    \cup
    {<<Item(1, d[1], J1, len), Item(2, d[2], J2, len)>> :
        d \in {<< <<100>>, <<200, 100>> >>, << <<200>>, <<100>> >>},
        J1 \in PathSets(1), J2 \in PathSets(1), len \in 0..MaxList}

SKUs ==
    {[defindex |-> d, quality |-> q, killstreak |-> ks, quality2 |-> q2, australium |-> FALSE,
      festive |-> f, effect |-> ef, tradable |-> TRUE, craftable |-> TRUE] :
        d \in {100, 200}, q \in {0, 5, 6}, ks \in {0, 2}, q2 \in {None, Some(11)},
        f \in BOOLEAN, ef \in {None}}
    \cup
    {[defindex |-> d, quality |-> 5, killstreak |-> 0, quality2 |-> None, australium |-> FALSE,
      festive |-> FALSE, effect |-> Some(ef), tradable |-> TRUE, craftable |-> TRUE] :
        d \in {100, 200}, ef \in {1, 13}}
    \cup
    {[defindex |-> 100, quality |-> q, killstreak |-> 0, quality2 |-> None, australium |-> FALSE,
      festive |-> FALSE, effect |-> None, tradable |-> TRUE, craftable |-> TRUE] : q \in {-1, 16}}

HoldFresh(items) ==
    /\ cache = (IF variant = "ts"
                THEN Some([data |-> items, timestamp |-> 0, defindexMap |-> buildDefindexMap(items)])
                ELSE None)
    /\ pricesCache = (IF variant = "p3" THEN Some(items) ELSE None)
    /\ cacheTime = 0

InitResolve ==
    /\ variant \in Variants
    /\ now = 0
    /\ \E items \in Catalogs : HoldFresh(items)
    /\ calls = <<>>
    /\ log = "none"
    /\ parsed = None
    /\ response = None
    /\ bot = None
    /\ codec = {}

\* one getPrice(sku) on the held catalog
Resolve ==
    /\ parsed = None
    /\ \E sku \in SKUs :
        /\ parsed' = Some(sku)
        /\ response' = Some(getPriceHeld(sku))
    /\ UNCHANGED <<codec, bot, variant, now, cache, pricesCache, cacheTime, calls, log>>

NextResolve == Resolve

SpecResolve == InitResolve /\ [][NextResolve]_vars

(***************************************************************************)
(* The cache and the asynchronous calls                                    *)
(***************************************************************************)
cacheTimeout == 300000

MaxCalls == 2       \* calls that may be in progress together
MaxTicks == 2       \* the clock runs to MaxTicks half freshness windows

HalfWindow == cacheTimeout \div 2

Calls == 1..MaxCalls

\* a boundary slip: an entry exactly cacheTimeout old still counts as fresh
IsFresh_ts_Inclusive(held, time) == held # None /\ time - held[1].timestamp <= cacheTimeout

\* this.cache && now - this.cache.timestamp < this.cacheTimeout
IsFresh_ts(held, time) == held # None /\ time - held[1].timestamp < cacheTimeout

\* this.pricesCache && now - this.cacheTime < this.cacheTimeout
IsFresh_p3(held, heldTime, time) == held # None /\ time - heldTime < cacheTimeout

IsFresh ==
    IF variant = "ts" THEN IsFresh_ts(cache, now) ELSE IsFresh_p3(pricesCache, cacheTime, now)

Held == IF variant = "ts" THEN cache # None ELSE pricesCache # None

HeldTimestamp == IF variant = "ts" THEN cache[1].timestamp ELSE cacheTime

\* a catch block that rethrows whatever is held
fetchCatch_Rethrow(heldItems) == [thrown |-> TRUE, data |-> None]

\* the catch block of fetchPrices: the stale catalog, or the error thrown on
fetchCatch(heldItems) ==
    IF heldItems # None THEN [thrown |-> FALSE, data |-> heldItems]
    ELSE [thrown |-> TRUE, data |-> None]

\* a getPrice without its try/catch: what is thrown inside rejects the promise
getPriceSettle_NoCatch(thrown, resp) ==
    IF thrown THEN [outcome |-> "rejected", result |-> None]
    ELSE [outcome |-> "resolved", result |-> Some(resp)]

\* the try/catch of getPrice: whatever is thrown inside becomes an error response
getPriceSettle(thrown, resp) ==
    [outcome |-> "resolved",
     result |-> Some(IF thrown THEN createErrorResponse("Error") ELSE resp)]

\* the catalogs the remote endpoint answers with in the cache runs
Payloads ==
    {<<Item(1, <<200>>, {2}, 1)>>,
     <<Item(1, <<200, 100>>, {1}, 1), Item(2, <<100>>, {2}, 1)>>}

\* the items getPricelist builds from data.response.items; the extraction of
\* the payloads of the cache runs is evaluated once
PayloadItems == [class \in Variants, payload \in Payloads |-> extractItemsOf(class, payload)]

extractItems(items) ==
    IF codec = {} /\ items \in Payloads THEN PayloadItems[variant, items]
    ELSE extractItemsWith(variant, items, codec)

\* the try/catch of getPricelist: { items } or { items: [] }
getPricelistSettle(thrown, items) ==
    [outcome |-> "resolved", result |-> Some([items |-> IF thrown THEN <<>> ELSE extractItems(items)])]

\* init: this.fetchPrices().catch(...) ends without a value either way
initSettle == [outcome |-> "resolved", result |-> None]

PlainSku(d, q) ==
    [defindex |-> d, quality |-> q, killstreak |-> 0, quality2 |-> None, australium |-> FALSE,
     festive |-> FALSE, effect |-> None, tradable |-> TRUE, craftable |-> TRUE]

\* the keys given to getPrice in the cache runs: ok says whether SKU.fromString
\* returns (the record is then sku) or throws
Keys ==
    {[ok |-> TRUE, sku |-> PlainSku(100, q)] : q \in {-1, 6, 16}}
    \cup {[ok |-> FALSE, sku |-> PlainSku(0, 0)]}

IdleCall ==
    [op |-> "none", pc |-> "idle", key |-> None, t |-> 0,
     data |-> None, outcome |-> "pending", result |-> None]

Init ==
    /\ variant \in Variants
    /\ now = 0
    /\ cache = None
    /\ pricesCache = None
    /\ cacheTime = 0
    /\ calls = [c \in Calls |-> IdleCall]
    /\ log = "none"
    /\ parsed = None
    /\ response = None
    /\ bot = None
    /\ codec = {}

CacheVars == <<cache, pricesCache, cacheTime>>

Settled(call, s) ==
    [call EXCEPT !.pc = "done", !.t = 0, !.data = None, !.outcome = s.outcome, !.result = s.result]

\* fetchPrices has returned data to its caller.  getPrice continues after the
\* await, in a later step (it reads this.cache again); getPricelist and init
\* use nothing but the data returned, so they are settled here
Obtained(call, items) ==
    IF call.op = "getPrice" THEN [call EXCEPT !.pc = "resume", !.t = 0, !.data = Some(items)]
    ELSE IF call.op = "getPricelist" THEN Settled(call, getPricelistSettle(FALSE, items))
    ELSE Settled(call, initSettle)

\* fetchPrices has thrown to its caller
Rejected(call) ==
    IF call.op = "getPrice" THEN Settled(call, getPriceSettle(TRUE, createErrorResponse("")))
    ELSE IF call.op = "getPricelist" THEN Settled(call, getPricelistSettle(TRUE, <<>>))
    ELSE Settled(call, initSettle)

\* fetchPrices up to its first await: served from the cache, or a request is sent
fetchPricesStart(call) ==
    IF IsFresh THEN Obtained(call, HeldItems)
    ELSE [call EXCEPT !.pc = "http", !.t = now]

getPrice(c) ==
    /\ calls[c].pc = "idle"
    /\ \E key \in Keys :
        LET call == [IdleCall EXCEPT !.op = "getPrice", !.key = Some(key)]
        IN  /\ calls' = [calls EXCEPT ![c] =
                    IF ~key.ok THEN Settled(call, getPriceSettle(TRUE, createErrorResponse("")))
                    ELSE IF ~isItemSupported(key.sku)
                        THEN Settled(call, getPriceSettle(FALSE, createErrorResponse(
                                IF variant = "ts" THEN "Invalid quality" ELSE "Item not supported")))
                    ELSE fetchPricesStart(call)]
            /\ log' = IF ~key.ok THEN "error" ELSE "none"
    /\ UNCHANGED <<codec, bot, variant, now, CacheVars, parsed, response>>

getPricelist(c) ==
    /\ calls[c].pc = "idle"
    /\ calls' = [calls EXCEPT ![c] = fetchPricesStart([IdleCall EXCEPT !.op = "getPricelist"])]
    /\ log' = "none"
    /\ UNCHANGED <<codec, bot, variant, now, CacheVars, parsed, response>>

\* init(true); init(false) does nothing
init(c) ==
    /\ calls[c].pc = "idle"
    /\ calls' = [calls EXCEPT ![c] = fetchPricesStart([IdleCall EXCEPT !.op = "init"])]
    /\ log' = "none"
    /\ UNCHANGED <<codec, bot, variant, now, CacheVars, parsed, response>>

\* axios.get resolves with a payload: the cache is replaced, stamped with the
\* time read when the call began
HttpOk(c) ==
    /\ calls[c].pc = "http"
    /\ \E payload \in Payloads :
        /\ IF variant = "ts"
           THEN /\ cache' = Some([data |-> payload, timestamp |-> calls[c].t,
                                  defindexMap |-> buildDefindexMap(payload)])
                /\ UNCHANGED <<pricesCache, cacheTime>>
           ELSE /\ pricesCache' = Some(payload)
                /\ cacheTime' = calls[c].t
                /\ UNCHANGED cache
        /\ calls' = [calls EXCEPT ![c] = Obtained(@, payload)]
    /\ log' = "none"
    /\ UNCHANGED <<codec, bot, variant, now, parsed, response>>

\* axios.get rejects (error or timeout): console.warn when the stale catalog is
\* served, console.error by the caller's catch otherwise
HttpFail(c) ==
    /\ calls[c].pc = "http"
    /\ LET caught == fetchCatch(IF Held THEN Some(HeldItems) ELSE None)
       IN  /\ calls' = [calls EXCEPT ![c] =
                    IF caught.thrown THEN Rejected(@) ELSE Obtained(@, caught.data[1])]
           /\ log' = IF caught.thrown THEN "error" ELSE "warn"
    /\ UNCHANGED <<codec, bot, variant, now, CacheVars, parsed, response>>

\* a getPrice that drops the held catalog once it has looked the price up
Resume_DropsCatalog(c) ==
    /\ calls[c].pc = "resume"
    /\ LET call == calls[c]
           items == call.data[1]
       IN  calls' = [calls EXCEPT ![c] = Settled(call, getPriceSettle(FALSE,
                        IF variant = "ts" THEN lookup_ts(cache, items, call.key[1].sku)
                        ELSE lookup_p3(items, call.key[1].sku)))]
    /\ log' = "none"
    /\ cache' = None /\ pricesCache' = None /\ cacheTime' = cacheTime
    /\ UNCHANGED <<codec, bot, variant, now, parsed, response>>

\* getPrice continues after `await this.fetchPrices()`
Resume(c) ==
    /\ calls[c].pc = "resume"
    /\ LET call == calls[c]
           items == call.data[1]
       IN  calls' = [calls EXCEPT ![c] = Settled(call, getPriceSettle(FALSE,
                        IF variant = "ts" THEN lookup_ts(cache, items, call.key[1].sku)
                        ELSE lookup_p3(items, call.key[1].sku)))]
    /\ log' = "none"
    /\ UNCHANGED <<codec, bot, variant, now, CacheVars, parsed, response>>

\* the caller has taken the settled promise
Return(c) ==
    /\ calls[c].pc = "done"
    /\ calls' = [calls EXCEPT ![c] = IdleCall]
    /\ log' = "none"
    /\ UNCHANGED <<codec, bot, variant, now, CacheVars, parsed, response>>

\* clearCache(), also run by shutdown()
clearCache ==
    /\ Held
    /\ IF variant = "ts"
       THEN cache' = None /\ UNCHANGED <<pricesCache, cacheTime>>
       ELSE pricesCache' = None /\ cacheTime' = 0 /\ UNCHANGED cache
    /\ log' = "none"
    /\ UNCHANGED <<codec, bot, variant, now, calls, parsed, response>>

Tick ==
    /\ now + HalfWindow <= MaxTicks * HalfWindow
    /\ now' = now + HalfWindow
    /\ log' = "none"
    /\ UNCHANGED <<codec, bot, variant, CacheVars, calls, parsed, response>>

Next ==
    \/ \E c \in Calls : getPrice(c)
    \/ \E c \in Calls : getPricelist(c)
    \/ \E c \in Calls : init(c)
    \/ \E c \in Calls : HttpOk(c)
    \/ \E c \in Calls : HttpFail(c)
    \/ \E c \in Calls : Resume(c)
    \/ \E c \in Calls : Return(c)
    \/ clearCache
    \/ Tick

Spec == Init /\ [][Next]_vars

(***************************************************************************)
(* Properties.  The cache properties are checked under Spec, the resolver  *)
(* properties under SpecResolve.                                           *)
(***************************************************************************)
InFlight == {c \in Calls : calls[c].pc = "http"}

\* the call record is one that got as far as fetchPrices
ReachesFetch(call) ==
    \/ call.op \in {"getPricelist", "init"}
    \/ /\ call.op = "getPrice"
       /\ call.key[1].ok
       /\ call.key[1].sku.quality >= 0
       /\ call.key[1].sku.quality <= 15

\* C1: a call of fetchPrices is served from the cache, sending no request, exactly
\* when a cache is held and now - timestamp < 300000 ms; in every other case (no
\* cache, cache cleared, age >= 300000) it sends a request, stamped with now.
C1_CacheServedIffFresh ==
    [][\A c \in Calls :
        (calls[c].pc = "idle" /\ calls'[c].pc # "idle" /\ ReachesFetch(calls'[c]))
        => /\ (calls'[c].pc # "http") <=> (Held /\ now - HeldTimestamp < 300000)
           /\ calls'[c].pc = "http" => calls'[c].t = now
           /\ InFlight' \subseteq InFlight \cup {c}
           /\ UNCHANGED CacheVars]_vars

\* a request is in flight that was sent while the held catalog was exactly 300000 ms old
C1_Witness ==
    \E c \in Calls :
        /\ calls[c].pc = "http" /\ calls[c].t = now
        /\ Held /\ now - HeldTimestamp = 300000

\* what the caller of fetchPrices holds once items have been returned to it
GotItems(call, items) ==
    \/ call.op = "getPrice" /\ call.pc = "resume" /\ call.data = Some(items)
    \/ call.op = "getPricelist" /\ call.pc = "done" /\ call.result = Some([items |-> extractItems(items)])
    \/ call.op = "init" /\ call.pc = "done" /\ call.outcome = "resolved"

\* C2: when a request fails while a catalog is held, fetchPrices returns the held
\* catalog with a warning and leaves data, timestamp and index as they were (after
\* any number of failures); a request that succeeds replaces the catalog as a whole.
C2_StaleServedOnFailure ==
    [][\A c \in Calls :
        (calls[c].pc = "http" /\ calls'[c].pc # "http")
        => /\ (Held /\ log' # "none")
                => log' = "warn" /\ UNCHANGED CacheVars /\ GotItems(calls'[c], HeldItems)
           /\ log' = "none"
                => /\ Held' /\ HeldItems' \in Payloads /\ HeldTimestamp' = calls[c].t
                   /\ GotItems(calls'[c], HeldItems')]_vars

\* a failed request has just been answered from the held catalog
C2_Witness ==
    /\ log = "warn" /\ Held
    /\ \E c \in Calls : calls[c].pc = "resume" /\ calls[c].data = Some(HeldItems)

\* C3: calls of fetchPrices that begin while a request is in flight share it: at
\* most one remote request is outstanding at any time.
C3_SingleFlight == Cardinality(InFlight) <= 1

\* the base ids a catalog declares, and the names of the entries declaring one
DeclaredIds(items) ==
    {d \in UNION {{items[n].defindex[j] : j \in 1..Len(items[n].defindex)} : n \in 1..Len(items)} : TRUE}

Declares(item, d) == \E j \in 1..Len(item.defindex) : item.defindex[j] = d

NamesDeclaring(items, d) ==
    LET declaring == SelectSeq(items, LAMBDA it : Declares(it, d))
    IN  [n \in 1..Len(declaring) |-> declaring[n].name]

\* C4: whenever a cache is held (variant ts), its index maps each base id of the
\* payload held to exactly the entries, in catalog order, whose defindex list
\* contains it, and maps nothing else.
C4_IndexMatchesHeldPayload ==
    (variant = "ts" /\ cache # None)
    => /\ DOMAIN cache[1].defindexMap = DeclaredIds(cache[1].data)
       /\ \A d \in DOMAIN cache[1].defindexMap :
            cache[1].defindexMap[d] = NamesDeclaring(cache[1].data, d)

\* a two-entry payload is held whose entries share a base id, and a call still
\* holds the payload it replaced
C4_Witness ==
    /\ variant = "ts" /\ cache # None
    /\ \E d \in DOMAIN cache[1].defindexMap : Len(cache[1].defindexMap[d]) = 2
    /\ \E c \in Calls : calls[c].pc = "resume" /\ calls[c].data # Some(cache[1].data)

NoPrice(resp) == resp.buy = None /\ resp.sell = None

\* C5: getPrice of a key whose quality is below 0 or above 15 answers buy = null,
\* sell = null at once: no fetchPrices, no request, the cache untouched.
C5_UnsupportedQualityNoFetch ==
    [][\A c \in Calls :
        (/\ calls[c].pc = "idle" /\ calls'[c].op = "getPrice"
         /\ calls'[c].key[1].ok
         /\ (calls'[c].key[1].sku.quality < 0 \/ calls'[c].key[1].sku.quality > 15))
        => /\ calls'[c].pc = "done" /\ calls'[c].outcome = "resolved"
           /\ calls'[c].result # None /\ NoPrice(calls'[c].result[1])
           /\ InFlight' = InFlight
           /\ UNCHANGED CacheVars]_vars

\* both an item of quality -1 and one of quality 16 have been refused while a
\* catalog is held
C5_Witness ==
    /\ Held
    /\ \A q \in {-1, 16} : \E c \in Calls :
        /\ calls[c].pc = "done" /\ calls[c].op = "getPrice"
        /\ calls[c].key[1].ok /\ calls[c].key[1].sku.quality = q
        /\ NoPrice(calls[c].result[1])

\* the base id is absent from the index getPrice consults (ts: the index of the
\* cache held when the lookup runs; p3 has no index and scans the data)
NotIndexed(items, d) ==
    IF variant = "ts" THEN cache = None \/ d \notin DOMAIN cache[1].defindexMap
    ELSE d \notin DeclaredIds(items)

\* C10: getPrice never rejects: a malformed key, an unsupported item, a failed
\* fetch with nothing cached, a base id absent from the index all give a response
\* with buy = null and sell = null, and a response has a buy exactly when it
\* has a sell.
C10_GetPriceAlwaysResolves ==
    [][\A c \in Calls :
        (calls[c].pc # "done" /\ calls'[c].pc = "done" /\ calls'[c].op = "getPrice")
        => /\ calls'[c].outcome = "resolved"
           /\ calls'[c].result # None
           /\ (calls'[c].result[1].buy = None) <=> (calls'[c].result[1].sell = None)
           /\ (\/ ~calls'[c].key[1].ok
               \/ ~ReachesFetch(calls'[c])
               \/ calls[c].pc = "http"
               \/ /\ calls[c].pc = "resume"
                  /\ NotIndexed(calls[c].data[1], calls'[c].key[1].sku.defindex))
              => NoPrice(calls'[c].result[1])]_vars

\* one getPrice ended on a failed fetch with nothing cached, another on a price
C10_Witness ==
    /\ log = "error" /\ ~Held
    /\ \E c \in Calls :
        /\ calls[c].pc = "done" /\ calls[c].op = "getPrice" /\ calls[c].key[1].ok
        /\ calls[c].key[1].sku.quality = 6 /\ NoPrice(calls[c].result[1])
    /\ \E c \in Calls :
        /\ calls[c].pc = "done" /\ calls[c].op = "getPrice"
        /\ calls[c].result[1].buy # None /\ calls[c].result[1].sell # None

(***************************************************************************)
(* Resolver properties (SpecResolve): parsed is the record looked up on    *)
(* the held catalog, response the answer of getPrice                       *)
(***************************************************************************)
Looked == parsed # None /\ isItemSupported(parsed[1])

WithEffect(sku) == sku.quality = 5 /\ sku.effect # None

\* the label scheme of the specification: the item's own quality, the flag
\* labels, and the effect id last for an unusual item with an effect
ExactPath(sku) ==
    <<ToString(sku.quality), TradableLabel(sku), CraftableLabel(sku),
      IF sku.killstreak \in 1..3 THEN killstreakNames[sku.killstreak] ELSE "Normal",
      IF sku.quality2 = Some(11) THEN "Strange" ELSE "Normal",
      IF sku.australium THEN "Australium" ELSE "Normal",
      IF sku.festive THEN "Festive" ELSE "Normal">>
    \o (IF WithEffect(sku) THEN <<ToString(sku.effect[1])>> ELSE <<>>)

\* the entries of the held catalog that declare the base id, in catalog order
CandidatesOf(sku) == SelectSeq(HeldItems, LAMBDA it : Declares(it, sku.defindex))

BuyOf(priceEntry) == Some(createCurrencies(priceEntry.value, priceEntry.currency))

\* C6: when a catalog entry declaring the base id holds a price list at the full
\* exact label path of the record (ending in the effect id for an unusual item
\* with an effect), getPrice returns the first entry of that list.  Stated for
\* the first candidate, so that no earlier candidate can answer instead, and for
\* records of a quality other than 0, whose label the code replaces by "6".
C6_ExactPathReturned ==
    (/\ Looked /\ parsed[1].quality # 0
     /\ CandidatesOf(parsed[1]) # <<>>
     /\ ExactPath(parsed[1]) \in DOMAIN CandidatesOf(parsed[1])[1].prices
     /\ Len(CandidatesOf(parsed[1])[1].prices[ExactPath(parsed[1])]) > 0)
    => response[1].buy = BuyOf(CandidatesOf(parsed[1])[1].prices[ExactPath(parsed[1])][1])

\* the reference walk of C7: the exact label if present, else "Normal" at the
\* same level, else no match; a non-empty list at the end gives its first entry
HasLabel(prices, p, label) == \E q \in DOMAIN prices : IsPrefix(Append(p, label), q)

RECURSIVE ReferenceWalk(_, _, _, _)
ReferenceWalk(prices, p, path, n) ==
    IF n > Len(path)
    THEN (IF p \in DOMAIN prices /\ Len(prices[p]) > 0 THEN Some(prices[p][1]) ELSE None)
    ELSE IF HasLabel(prices, p, path[n]) THEN ReferenceWalk(prices, Append(p, path[n]), path, n + 1)
    ELSE IF HasLabel(prices, p, "Normal") THEN ReferenceWalk(prices, Append(p, "Normal"), path, n + 1)
    ELSE None

\* what the code's descent of one candidate yields for a record without effect
Descent(item, sku) ==
    IF variant = "ts" THEN findPriceInData(item.prices, buildPricePath(sku), sku.effect)
    ELSE SearchItem_p3(item, sku)

\* the lists of the entry all lie at the full depth of the label path or below
FullDepth(item) == \A q \in DOMAIN item.prices : Len(q) >= Len(fallbackKeys) + 3

\* C7: for a record without effect, the descent of each candidate entry equals
\* the reference walk along the label path the code builds for the record.
\* Stated for the entries whose lists lie at full depth.
C7_DescentIsReferenceWalk ==
    (Looked /\ parsed[1].effect = None)
    => \A n \in 1..Len(CandidatesOf(parsed[1])) :
         FullDepth(CandidatesOf(parsed[1])[n]) =>
         Descent(CandidatesOf(parsed[1])[n], parsed[1])
            = ReferenceWalk(CandidatesOf(parsed[1])[n].prices, <<>>, buildPricePath(parsed[1]), 1)

\* C8: for an unusual item with an effect, when no candidate holds anything under
\* that effect id, getPrice returns no price, whatever generic list exists.
C8_NoEffectNoPrice ==
    (/\ Looked /\ WithEffect(parsed[1])
     /\ \A n \in 1..Len(CandidatesOf(parsed[1])) :
            \A q \in DOMAIN CandidatesOf(parsed[1])[n].prices :
                \A j \in 1..Len(q) : q[j] # ToString(parsed[1].effect[1]))
    => NoPrice(response[1])

\* the relaxation ladder of C9, in its order
Ladder(sku) ==
    <<[sku EXCEPT !.killstreak = 0],
      [sku EXCEPT !.quality2 = None],
      [sku EXCEPT !.festive = FALSE],
      [sku EXCEPT !.killstreak = 0, !.quality2 = None, !.australium = FALSE,
                  !.festive = FALSE, !.effect = None]>>

\* what the candidates of the held catalog yield for a record, by the code's own search
MatchOf(sku) ==
    IF variant = "ts" THEN lookup_ts(cache, HeldItems, sku) ELSE searchPriceInItems(sku, HeldItems)

RECURSIVE FirstMatch(_, _)
FirstMatch(skus, n) ==
    IF n > Len(skus) THEN None
    ELSE IF MatchOf(skus[n]).buy # None THEN MatchOf(skus[n]).buy
    ELSE FirstMatch(skus, n + 1)

\* C9: for a record without effect that no candidate matches, getPrice returns the
\* price of the first alternative of the ladder that matches, if any does.
C9_RelaxationLadder ==
    (Looked /\ parsed[1].effect = None /\ MatchOf(parsed[1]).buy = None)
    => response[1].buy = FirstMatch(Ladder(parsed[1]), 1)

(***************************************************************************)
(* Price synthesis runs (SpecSynth): the pricer holds a catalog that       *)
(* prices one item by the same price entry at the label path of every      *)
(* record of SynthSKUs, and getPrice is run once.  Amounts are multiples   *)
(* of 0.01, so that every percentage is a whole number of 1/10000.         *)
(***************************************************************************)
SynthEntries ==
    {[currency |-> cu, value |-> v, value_raw |-> r, value_high |-> h] :
        cu \in {"keys", "metal", "usd"}, v \in {0, 20000, 500000},
        r \in {None, Some(10000)}, h \in {None, Some(0), Some(20000), Some(600000)}}

SynthSKUs ==
    {[PlainSku(100, q) EXCEPT !.australium = a, !.killstreak = ks] :
        q \in {5, 6}, a \in BOOLEAN, ks \in 0..3}

SynthCatalog(e) ==
    <<[name |-> "Item A", defindex |-> <<100>>,
       prices |-> [p \in {buildPricePath(sku) : sku \in SynthSKUs} |-> <<e>>]]>>

InitSynth ==
    /\ variant \in Variants
    /\ now = 0
    /\ \E e \in SynthEntries : HoldFresh(SynthCatalog(e))
    /\ calls = <<>>
    /\ log = "none"
    /\ parsed = None
    /\ response = None
    /\ bot = None
    /\ codec = {}

\* one getPrice(sku) on the held catalog
Quote ==
    /\ parsed = None
    /\ \E sku \in SynthSKUs :
        /\ parsed' = Some(sku)
        /\ response' = Some(getPriceHeld(sku))
    /\ UNCHANGED <<codec, bot, variant, now, cache, pricesCache, cacheTime, calls, log>>

NextSynth == Quote

SpecSynth == InitSynth /\ [][NextSynth]_vars

\* createPriceResponse of the pricer's class
QuoteOf(priceEntry, sku) ==
    IF variant = "ts" THEN createPriceResponse_ts(priceEntry, sku)
    ELSE createPriceResponse_p3(priceEntry, sku)

\* the amount a Currencies value carries in the unit of the price entry
Amount(currencies, currency) ==
    IF currency = "keys" THEN currencies.keys ELSE currencies.metal

Quoted == parsed # None /\ response[1].buy # None

\* the price entry getPrice found, the bid and the ask of its response
FoundEntry == HeldItems[1].prices[buildPricePath(parsed[1])][1]
Bid == Amount(response[1].buy[1], FoundEntry.currency)
Ask == Amount(response[1].sell[1], FoundEntry.currency)

OverrideApplies == FoundEntry.value_high # None /\ FoundEntry.value_high[1] > Bid

\* C11: when value_high is present and strictly greater than the bid the ask is
\* value_high, whatever the category and the unit; otherwise the ask is the one
\* the same entry gets without a value_high.
C11_OverrideWinsWhenGreater ==
    Quoted =>
        /\ OverrideApplies => Ask = FoundEntry.value_high[1]
        /\ ~OverrideApplies =>
              Ask = Amount(QuoteOf([FoundEntry EXCEPT !.value_high = None], parsed[1]).sell[1],
                           FoundEntry.currency)

\* an unusual australium killstreak item priced in keys got its override as ask
C11_Witness ==
    /\ Quoted /\ OverrideApplies /\ Ask = 600000 /\ Bid = 500000
    /\ FoundEntry.currency = "keys"
    /\ parsed[1].quality = 5 /\ parsed[1].australium /\ parsed[1].killstreak = 3

\* the margin table of the claims: rate in percent, floors in 1/10000
TableRow(category) ==
    CASE category = "unusual"     -> [rate |-> 2, keyFloor |-> 5000, metalFloor |-> 3300]
      [] category = "australium"  -> [rate |-> 3, keyFloor |-> 2500, metalFloor |-> 2200]
      [] category = "killstreak3" -> [rate |-> 4, keyFloor |-> 1000, metalFloor |-> 1100]
      [] category = "killstreak"  -> [rate |-> 3, keyFloor |-> 1000, metalFloor |-> 1100]
      [] OTHER                    -> [rate |-> 0, keyFloor |-> 500,  metalFloor |-> 1100]

TableAsk(category, bid, currency) ==
    LET row == TableRow(category)
        floor == IF currency = "keys" THEN row.keyFloor ELSE row.metalFloor
    IN  bid + Max(floor, (bid * row.rate) \div 100)

IsUnusual(sku) == sku.quality = 5
KillstreakCategory(sku) == IF sku.killstreak = 3 THEN "killstreak3" ELSE "killstreak"

\* the category of an item that falls under one category only
OnlyCategory(sku) ==
    IF IsUnusual(sku) /\ ~sku.australium /\ sku.killstreak = 0 THEN "unusual"
    ELSE IF ~IsUnusual(sku) /\ sku.australium /\ sku.killstreak = 0 THEN "australium"
    ELSE IF ~IsUnusual(sku) /\ ~sku.australium /\ sku.killstreak > 0 THEN KillstreakCategory(sku)
    ELSE IF ~IsUnusual(sku) /\ ~sku.australium /\ sku.killstreak = 0 THEN "default"
    ELSE "several"

NoOverrideQuote == Quoted /\ ~OverrideApplies /\ FoundEntry.currency \in {"keys", "metal"}

\* C12: with no applicable override, an item of one category gets
\* ask = bid + max(floor, bid x rate) with the constants of the table, in keys and
\* in metal (the default category: in metal).
C12_MarginTable ==
    (/\ NoOverrideQuote
     /\ OnlyCategory(parsed[1]) # "several"
     /\ ~(OnlyCategory(parsed[1]) = "default" /\ FoundEntry.currency = "keys"))
    => Ask = TableAsk(OnlyCategory(parsed[1]), Bid, FoundEntry.currency)

\* a tier-3 killstreak item with bid 2.00 metal got ask 2.11
C12_Witness ==
    /\ NoOverrideQuote /\ OnlyCategory(parsed[1]) = "killstreak3"
    /\ FoundEntry.currency = "metal" /\ Bid = 20000 /\ Ask = 21100

DefaultKeysQuote ==
    /\ NoOverrideQuote /\ OnlyCategory(parsed[1]) = "default" /\ FoundEntry.currency = "keys"

\* C13 as claimed: a default-category item priced in keys with no applicable
\* override gets ask = bid + max(0.05, 5% of bid).
C13_DefaultKeysFivePercent ==
    DefaultKeysQuote => Ask = Bid + Max(500, (Bid * 5) \div 100)

\* C13 amended: a default-category item priced in keys with no applicable
\* override gets ask = bid + 0.05, whatever the bid (rate 0%, floor 0.05).
C13_DefaultKeysFlat ==
    DefaultKeysQuote => Ask = Bid + 500

\* a default item with bid 50.00 keys got ask 50.05, where 5% would give 52.50
C13_Witness ==
    DefaultKeysQuote /\ Bid = 500000 /\ Ask = 500500

\* C14: with no applicable override, every quality-5 item is priced with the
\* unusual row even if australium or killstreak, and every other australium item
\* with the australium row even if killstreak.
C14_CategoryPrecedence ==
    NoOverrideQuote =>
        /\ IsUnusual(parsed[1]) => Ask = TableAsk("unusual", Bid, FoundEntry.currency)
        /\ (~IsUnusual(parsed[1]) /\ parsed[1].australium)
              => Ask = TableAsk("australium", Bid, FoundEntry.currency)

\* an unusual australium tier-3 killstreak item with bid 50.00 keys got the ask
\* of the unusual row, 51.00 (australium would give 51.50, killstreak 52.00)
C14_Witness ==
    /\ NoOverrideQuote /\ FoundEntry.currency = "keys" /\ Bid = 500000 /\ Ask = 510000
    /\ IsUnusual(parsed[1]) /\ parsed[1].australium /\ parsed[1].killstreak = 3

\* C15: whatever the bid, the override, the category and the unit, the ask is
\* greater than or equal to the bid.
C15_AskNotBelowBid ==
    Quoted => Ask >= Bid

\* an override below the bid was present and the ask stayed above the bid
C15_Witness ==
    /\ Quoted /\ FoundEntry.value_high # None /\ FoundEntry.value_high[1] < Bid
    /\ Ask > Bid

(***************************************************************************)
(* Extraction runs (SpecExtract): getPricelist is run once on a pricer     *)
(* that holds a fresh catalog of Catalogs; response is what it returns     *)
(***************************************************************************)
\* catalogs whose tree is not of the regular depth: a list directly under the
\* quality or the tradable level, and lists 6, 7, 10 and 11 levels below the
\* craftable level, each alone or next to a list at 5/Tradable/Craftable
Normals(k) == [i \in 1..k |-> N]

IrregularPaths ==
    << <<"6">>, <<"6", T>>,
       <<"6", T, C>> \o Normals(6), <<"6", T, C>> \o Normals(7),
       <<"6", T, C>> \o Normals(10), <<"6", T, C>> \o Normals(11) >>

IrregularCatalogs ==
    {<<[name |-> "Item A", defindex |-> <<100>>,
        prices |-> IF regular
                   THEN (IrregularPaths[j] :> PriceList(1, 20 + j, len))
                        @@ (<<"5", T, C>> :> PriceList(1, 20, len))
                   ELSE (IrregularPaths[j] :> PriceList(1, 20 + j, len))]>> :
        j \in 1..Len(IrregularPaths), regular \in BOOLEAN, len \in 1..MaxList}

ExtractCatalogs == Catalogs \cup IrregularCatalogs

InitExtract ==
    /\ variant \in Variants
    /\ now = 0
    /\ \E items \in ExtractCatalogs : HoldFresh(items)
    /\ calls = <<>>
    /\ log = "none"
    /\ parsed = None
    /\ response = None
    /\ bot = None
    /\ codec = {}

\* one getPricelist() on the held catalog (fetchPrices is served from the cache)
ExtractAll ==
    /\ response = None
    /\ response' = getPricelistSettle(FALSE, HeldItems).result
    /\ UNCHANGED <<codec, bot, variant, now, cache, pricesCache, cacheTime, calls, log, parsed>>

NextExtract == ExtractAll

SpecExtract == InitExtract /\ [][NextExtract]_vars

Extracted == response # None

\* the leaves of the held catalog in traversal order and the key each encodes to
HeldLeaves == LeavesOf(variant, HeldItems, 1)
KeyOf(leaf) == FullSKU(leaf.baseSKU, leaf.attributes)
FirstLeafOf(key) ==
    HeldLeaves[CHOOSE n \in 1..Len(HeldLeaves) :
        /\ KeyOf(HeldLeaves[n]) = key
        /\ \A m \in 1..(n - 1) : KeyOf(HeldLeaves[m]) # key]

\* C16: the list getPricelist returns holds no two items with the same key, and
\* for every key some leaf encodes to it holds one item, carrying the bid and ask
\* of the first such leaf in traversal order.
C16_OneItemPerKey ==
    Extracted =>
        LET items == response[1].items
        IN  /\ \A i, j \in 1..Len(items) : items[i].sku = items[j].sku => i = j
            /\ \A n \in 1..Len(HeldLeaves) :
                 \E i \in 1..Len(items) :
                    /\ items[i].sku = KeyOf(HeldLeaves[n])
                    /\ items[i].buy = QuoteOf(FirstLeafOf(items[i].sku).priceEntry, items[i].sku).buy[1]
                    /\ items[i].sell = QuoteOf(FirstLeafOf(items[i].sku).priceEntry, items[i].sku).sell[1]

\* two leaves with different prices encoded to one key and one item was emitted
C16_Witness ==
    /\ Extracted /\ Len(response[1].items) = 1
    /\ \E m, n \in 1..Len(HeldLeaves) :
        /\ m < n /\ KeyOf(HeldLeaves[m]) = KeyOf(HeldLeaves[n])
        /\ HeldLeaves[m].priceEntry # HeldLeaves[n].priceEntry
        /\ response[1].items[1].buy = QuoteOf(HeldLeaves[m].priceEntry, KeyOf(HeldLeaves[m])).buy[1]

\* ---------------------------------------------------------------------------
\* Autokeys: updateToBuy, updateToSell and updateToBank derive the price-list
\* entry of the key (sku 5021;6) and hand it to the price list's updatePrice.
\* Metal is counted in hundredths of a refined; the library's scrap values in
\* half scraps, its resolution (a scrap is 2, a refined 18).
\* ---------------------------------------------------------------------------

\* Currencies.toScrap: refined * 9 rounded to the nearest half scrap
toScrap(refined) == (refined * 18 + 50) \div 100

\* Currencies.toRefined: scrap / 9 with the decimals after the second cut off
toRefined(scrap) ==
    IF scrap >= 0 THEN (scrap * 100) \div 18 ELSE 0 - (((0 - scrap) * 100) \div 18)

\* Currencies.prototype.toValue of a price without keys
toValue(currencies) == toScrap(currencies.metal)

\* the configured adjustment: its flag, and its offset (in scrap) when it is on
genScrapAdjustment(value, enable) ==
    [enabled |-> enable, value |-> IF enable THEN value ELSE 0]

\* the key prices the price list holds: where they come from, the bid, the ask
getKeyPrices == bot.keyPrices

\* the note of every entry: the tag followed by the configured text
NoteOf(details) ==
    [buy |-> <<"Autokeys", details.buy>>, sell |-> <<"Autokeys", details.sell>>]

KeyEntry(autoprice, minKeys, maxKeys, intent, buy, sell) ==
    [sku |-> "5021;6", enabled |-> TRUE, autoprice |-> autoprice,
     min |-> minKeys, max |-> maxKeys, intent |-> intent,
     buy |-> buy, sell |-> sell, note |-> NoteOf(bot.options.details)]

Metal(metal) == Some([keys |-> 0, metal |-> metal])

\* the entry updateToBuy builds subtracts the offset
BuyEntry_Minus(minKeys, maxKeys) ==
    LET keyPrices == getKeyPrices
        scrapAdjustment == genScrapAdjustment(bot.options.scrapAdjustment.value,
                                              bot.options.scrapAdjustment.enable)
    IN  IF keyPrices.src = "manual" /\ ~scrapAdjustment.enabled
        THEN KeyEntry(FALSE, minKeys, maxKeys, 0,
                      Metal(keyPrices.buy.metal), Metal(keyPrices.sell.metal))
        ELSE IF scrapAdjustment.enabled
        THEN KeyEntry(FALSE, minKeys, maxKeys, 0,
                      Metal(toRefined(toValue(keyPrices.buy) - 2 * scrapAdjustment.value)),
                      Metal(toRefined(toValue(keyPrices.sell) - 2 * scrapAdjustment.value)))
        ELSE KeyEntry(TRUE, minKeys, maxKeys, 0, None, None)

\* the entry updateToBuy builds
BuyEntry(minKeys, maxKeys) ==
    LET keyPrices == getKeyPrices
        scrapAdjustment == genScrapAdjustment(bot.options.scrapAdjustment.value,
                                              bot.options.scrapAdjustment.enable)
    IN  IF keyPrices.src = "manual" /\ ~scrapAdjustment.enabled
        THEN KeyEntry(FALSE, minKeys, maxKeys, 0,
                      Metal(keyPrices.buy.metal), Metal(keyPrices.sell.metal))
        ELSE IF scrapAdjustment.enabled
        THEN KeyEntry(FALSE, minKeys, maxKeys, 0,
                      Metal(toRefined(toValue(keyPrices.buy) + 2 * scrapAdjustment.value)),
                      Metal(toRefined(toValue(keyPrices.sell) + 2 * scrapAdjustment.value)))
        ELSE KeyEntry(TRUE, minKeys, maxKeys, 0, None, None)

\* the entry updateToSell builds with the pinned branch tracking the catalog
SellEntry_PinnedAutopriced(minKeys, maxKeys) ==
    LET keyPrices == getKeyPrices
        scrapAdjustment == genScrapAdjustment(bot.options.scrapAdjustment.value,
                                              bot.options.scrapAdjustment.enable)
    IN  IF keyPrices.src # "manual" /\ ~scrapAdjustment.enabled
        THEN KeyEntry(TRUE, minKeys, maxKeys, 1, None, None)
        ELSE IF keyPrices.src = "manual" /\ ~scrapAdjustment.enabled
        THEN KeyEntry(TRUE, minKeys, maxKeys, 1,
                      Metal(keyPrices.buy.metal), Metal(keyPrices.sell.metal))
        ELSE KeyEntry(FALSE, minKeys, maxKeys, 1,
                      Metal(toRefined(toValue(keyPrices.buy) - 2 * scrapAdjustment.value)),
                      Metal(toRefined(toValue(keyPrices.sell) - 2 * scrapAdjustment.value)))

\* the entry updateToSell builds; its three conditions leave no case out
SellEntry(minKeys, maxKeys) ==
    LET keyPrices == getKeyPrices
        scrapAdjustment == genScrapAdjustment(bot.options.scrapAdjustment.value,
                                              bot.options.scrapAdjustment.enable)
    IN  IF keyPrices.src # "manual" /\ ~scrapAdjustment.enabled
        THEN KeyEntry(TRUE, minKeys, maxKeys, 1, None, None)
        ELSE IF keyPrices.src = "manual" /\ ~scrapAdjustment.enabled
        THEN KeyEntry(FALSE, minKeys, maxKeys, 1,
                      Metal(keyPrices.buy.metal), Metal(keyPrices.sell.metal))
        ELSE KeyEntry(FALSE, minKeys, maxKeys, 1,
                      Metal(toRefined(toValue(keyPrices.buy) - 2 * scrapAdjustment.value)),
                      Metal(toRefined(toValue(keyPrices.sell) - 2 * scrapAdjustment.value)))

\* the entry updateToBank builds carries prices whatever the source
BankEntry_AlwaysPinned(minKeys, maxKeys) ==
    LET keyPrices == getKeyPrices
    IN  KeyEntry(FALSE, minKeys, maxKeys, 2,
                 Metal(keyPrices.buy.metal), Metal(keyPrices.sell.metal))

\* the entry updateToBank builds; the scrap adjustment is not read
BankEntry(minKeys, maxKeys) ==
    LET keyPrices == getKeyPrices
    IN  IF keyPrices.src = "manual"
        THEN KeyEntry(FALSE, minKeys, maxKeys, 2,
                      Metal(keyPrices.buy.metal), Metal(keyPrices.sell.metal))
        ELSE KeyEntry(TRUE, minKeys, maxKeys, 2, None, None)

\* pricelist.updatePrice(entry, emitChange, src) is skipped after a rejection
Submit_StopAfterRejection(direction, entry, emitChange) ==
    IF \E n \in 1..Len(bot.updates) : bot.updates[n].state = "rejected"
    THEN bot.updates
    ELSE Append(bot.updates,
                [direction |-> direction, entry |-> entry, emitChange |-> emitChange,
                 src |-> "Autokeys", state |-> "pending"])

\* pricelist.updatePrice(entry, emitChange, src): the call is made and its
\* promise is pending
Submit(direction, entry, emitChange) ==
    Append(bot.updates,
           [direction |-> direction, entry |-> entry, emitChange |-> emitChange,
            src |-> "Autokeys", state |-> "pending"])

MaxUpdates == 2
KeyBounds == {<<0, 3>>, <<1, 5>>}

updateToBuy(minKeys, maxKeys) ==
    /\ Len(bot.invoked) < MaxUpdates
    /\ bot' = [bot EXCEPT
                !.invoked = Append(@, [direction |-> "buy", minKeys |-> minKeys, maxKeys |-> maxKeys]),
                !.updates = Submit("buy", BuyEntry(minKeys, maxKeys), TRUE)]
    /\ UNCHANGED <<codec, variant, now, cache, pricesCache, cacheTime, calls, log, parsed, response>>

updateToSell(minKeys, maxKeys) ==
    /\ Len(bot.invoked) < MaxUpdates
    /\ bot' = [bot EXCEPT
                !.invoked = Append(@, [direction |-> "sell", minKeys |-> minKeys, maxKeys |-> maxKeys]),
                !.updates = Submit("sell", SellEntry(minKeys, maxKeys), FALSE)]
    /\ UNCHANGED <<codec, variant, now, cache, pricesCache, cacheTime, calls, log, parsed, response>>

updateToBank(minKeys, maxKeys) ==
    /\ Len(bot.invoked) < MaxUpdates
    /\ bot' = [bot EXCEPT
                !.invoked = Append(@, [direction |-> "bank", minKeys |-> minKeys, maxKeys |-> maxKeys]),
                !.updates = Submit("bank", BankEntry(minKeys, maxKeys), TRUE)]
    /\ UNCHANGED <<codec, variant, now, cache, pricesCache, cacheTime, calls, log, parsed, response>>

\* the .then callbacks: log.debug, and for a sell entry listings.checkBySKU
\* with the entry the price list resolved with
updateResolved(n) ==
    /\ n \in 1..Len(bot.updates) /\ bot.updates[n].state = "pending"
    /\ bot' = [bot EXCEPT
                !.updates[n].state = "resolved",
                !.reports = Append(@, [update |-> n, level |-> "debug"]),
                !.checks = IF bot.updates[n].direction = "sell"
                           THEN Append(@, [update |-> n, sku |-> bot.updates[n].entry.sku])
                           ELSE @]
    /\ UNCHANGED <<codec, variant, now, cache, pricesCache, cacheTime, calls, log, parsed, response>>

\* what the .catch callback of updateToBank does after its warning
BankAlert(n) ==
    IF bot.options.sendAlert.failedToUpdate
    THEN IF bot.options.sendAlert.webhook
         THEN <<[update |-> n, by |-> "sendAlert"]>>
         ELSE <<[update |-> n, by |-> "messageAdmins"]>>
    ELSE <<>>

\* the .catch callbacks: log.warn, and for a bank entry the alert
updateRejected(n) ==
    /\ n \in 1..Len(bot.updates) /\ bot.updates[n].state = "pending"
    /\ bot' = [bot EXCEPT
                !.updates[n].state = "rejected",
                !.reports = Append(@, [update |-> n, level |-> "warn"]),
                !.alerts = IF bot.updates[n].direction = "bank"
                           THEN @ \o BankAlert(n)
                           ELSE @]
    /\ UNCHANGED <<codec, variant, now, cache, pricesCache, cacheTime, calls, log, parsed, response>>

\* the key prices a run starts from: a pin or the catalog's price, on whole
\* and on half scraps
KeyPrices ==
    { [src |-> s, buy |-> [keys |-> 0, metal |-> p[1]], sell |-> [keys |-> 0, metal |-> p[2]]] :
        s \in {"manual", "bptf"}, p \in {<<200, 211>>, <<6005, 6033>>} }

AlertOptions ==
    { [failedToUpdate |-> FALSE, webhook |-> FALSE],
      [failedToUpdate |-> TRUE, webhook |-> FALSE],
      [failedToUpdate |-> TRUE, webhook |-> TRUE] }

InitAutokeys ==
    /\ variant = "ts" /\ now = 0
    /\ cache = None /\ pricesCache = None /\ cacheTime = 0
    /\ calls = <<>> /\ log = "none"
    /\ parsed = None /\ response = None /\ codec = {}
    /\ \E enable \in BOOLEAN, value \in {-1, 1}, keyPrices \in KeyPrices,
          sendAlert \in AlertOptions :
         bot = [options |-> [scrapAdjustment |-> [enable |-> enable, value |-> value],
                             details |-> [buy |-> "buy note", sell |-> "sell note"],
                             sendAlert |-> sendAlert],
                keyPrices |-> keyPrices,
                invoked |-> <<>>, updates |-> <<>>, reports |-> <<>>,
                checks |-> <<>>, alerts |-> <<>>]

NextAutokeys ==
    \/ \E b \in KeyBounds : updateToBuy(b[1], b[2])
    \/ \E b \in KeyBounds : updateToSell(b[1], b[2])
    \/ \E b \in KeyBounds : updateToBank(b[1], b[2])
    \/ \E n \in 1..MaxUpdates : updateResolved(n)
    \/ \E n \in 1..MaxUpdates : updateRejected(n)

SpecAutokeys == InitAutokeys /\ [][NextAutokeys]_vars

\* ---------------------------------------------------------------------------
\* Properties of the Autokeys entries (SpecAutokeys)
\* ---------------------------------------------------------------------------

Pinned == bot.keyPrices.src = "manual"
Adjusting == bot.options.scrapAdjustment.enable
Offset == bot.options.scrapAdjustment.value
IntentOf(direction) ==
    CASE direction = "buy" -> 0 [] direction = "sell" -> 1 [] direction = "bank" -> 2

\* the n-th invocation and the entry it submitted
Submitted(n) == n \in 1..Len(bot.invoked) /\ n \in 1..Len(bot.updates)
EntryOfRun(n) == bot.updates[n].entry

\* C17: with the key price pinned and no scrap adjustment enabled, the entry an
\* invocation submits has autopricing disabled, the pinned bid and ask unchanged
\* with keys = 0, min and max equal to the arguments, and intent 0 for Buy,
\* 1 for Sell and 2 for Bank.
C17_PinnedVerbatim ==
    (Pinned /\ ~Adjusting) =>
        \A n \in 1..Len(bot.invoked) :
            /\ Submitted(n)
            /\ EntryOfRun(n).autoprice = FALSE
            /\ EntryOfRun(n).buy = <<[keys |-> 0, metal |-> bot.keyPrices.buy.metal]>>
            /\ EntryOfRun(n).sell = <<[keys |-> 0, metal |-> bot.keyPrices.sell.metal]>>
            /\ EntryOfRun(n).min = bot.invoked[n].minKeys
            /\ EntryOfRun(n).max = bot.invoked[n].maxKeys
            /\ EntryOfRun(n).intent = IntentOf(bot.invoked[n].direction)

\* a pinned price of 60.05 / 60.33 went out unchanged in a Buy and in a Sell entry
C17_Witness ==
    /\ Pinned /\ ~Adjusting /\ Len(bot.updates) = 2
    /\ bot.updates[1].direction = "buy" /\ bot.updates[2].direction = "sell"
    /\ bot.updates[1].entry.buy = <<[keys |-> 0, metal |-> 6005]>>
    /\ bot.updates[2].entry.sell = <<[keys |-> 0, metal |-> 6033]>>
    /\ bot.updates[2].entry.autoprice = FALSE /\ bot.updates[2].entry.intent = 1
    /\ bot.updates[1].entry.min # bot.updates[2].entry.min

\* the signed shift, in half scraps, a direction applies to both sides
ShiftOf(direction) == IF direction = "buy" THEN 2 * Offset ELSE 0 - 2 * Offset

\* C18: with a scrap adjustment enabled, pinned or not, the entry a Buy or Sell
\* invocation submits has autopricing disabled and, measured in scrap, its bid
\* and its ask are the current bid and ask shifted by the same offset: plus the
\* offset for Buy, minus the offset for Sell, so the spread stays as it was.
C18_ScrapShift ==
    Adjusting =>
        \A n \in 1..Len(bot.invoked) :
            bot.invoked[n].direction \in {"buy", "sell"} =>
                /\ Submitted(n)
                /\ EntryOfRun(n).autoprice = FALSE
                /\ Len(EntryOfRun(n).buy) = 1 /\ Len(EntryOfRun(n).sell) = 1
                /\ EntryOfRun(n).buy[1].keys = 0 /\ EntryOfRun(n).sell[1].keys = 0
                /\ toScrap(EntryOfRun(n).buy[1].metal)
                     = toScrap(bot.keyPrices.buy.metal) + ShiftOf(bot.invoked[n].direction)
                /\ toScrap(EntryOfRun(n).sell[1].metal)
                     = toScrap(bot.keyPrices.sell.metal) + ShiftOf(bot.invoked[n].direction)
                /\ toScrap(EntryOfRun(n).sell[1].metal) - toScrap(EntryOfRun(n).buy[1].metal)
                     = toScrap(bot.keyPrices.sell.metal) - toScrap(bot.keyPrices.buy.metal)

\* offset of one scrap, current bid 2.00 and ask 2.11, not pinned: the Buy entry
\* went out with bid 2.11 and ask 2.22, the Sell entry with bid 1.88 and ask 2.00
C18_Witness ==
    /\ Adjusting /\ Offset = 1 /\ ~Pinned /\ bot.keyPrices.buy.metal = 200
    /\ Len(bot.updates) = 2
    /\ bot.updates[1].direction = "buy" /\ bot.updates[2].direction = "sell"
    /\ bot.updates[1].entry.buy = <<[keys |-> 0, metal |-> 211]>>
    /\ bot.updates[1].entry.sell = <<[keys |-> 0, metal |-> 222]>>
    /\ bot.updates[2].entry.buy = <<[keys |-> 0, metal |-> 188]>>
    /\ bot.updates[2].entry.sell = <<[keys |-> 0, metal |-> 200]>>

\* C19: with the key price not pinned and no scrap adjustment enabled, the entry
\* an invocation of any direction submits has autopricing enabled, carries no
\* buy and no sell price, and has min, max and intent as requested.
C19_AutopricedEntry ==
    (~Pinned /\ ~Adjusting) =>
        \A n \in 1..Len(bot.invoked) :
            /\ Submitted(n)
            /\ EntryOfRun(n).autoprice = TRUE
            /\ EntryOfRun(n).buy = <<>>
            /\ EntryOfRun(n).sell = <<>>
            /\ EntryOfRun(n).min = bot.invoked[n].minKeys
            /\ EntryOfRun(n).max = bot.invoked[n].maxKeys
            /\ EntryOfRun(n).intent = IntentOf(bot.invoked[n].direction)

\* a Bank and a Sell invocation, the price from the catalog and no adjustment:
\* both entries went out autopriced and without prices
C19_Witness ==
    /\ ~Pinned /\ ~Adjusting /\ Len(bot.updates) = 2
    /\ bot.updates[1].direction = "bank" /\ bot.updates[2].direction = "sell"
    /\ bot.updates[1].entry.autoprice /\ bot.updates[2].entry.autoprice
    /\ bot.updates[1].entry.buy = <<>> /\ bot.updates[2].entry.sell = <<>>
    /\ bot.updates[1].entry.intent = 2 /\ bot.updates[2].entry.max = 5

\* the reports produced for the n-th updatePrice call
ReportsOf(n) == {r \in 1..Len(bot.reports) : bot.reports[r].update = n}

OneSubmissionPerInvocation ==
    /\ Len(bot.updates) = Len(bot.invoked)
    /\ \A n \in 1..Len(bot.updates) :
        /\ bot.updates[n].src = "Autokeys"
        /\ bot.updates[n].direction = bot.invoked[n].direction

OneReportPerSettled ==
    \A n \in 1..Len(bot.updates) :
        /\ bot.updates[n].state = "pending" => ReportsOf(n) = {}
        /\ bot.updates[n].state # "pending" =>
             /\ Cardinality(ReportsOf(n)) = 1
             /\ \A r \in ReportsOf(n) :
                  bot.reports[r].level =
                     (IF bot.updates[n].state = "resolved" THEN "debug" ELSE "warn")

\* a step leaves every earlier submission as it was made, a settled one as it
\* settled, and a step that settles one makes no new submission
NoResubmission ==
    /\ Len(bot'.updates) >= Len(bot.updates)
    /\ \A n \in 1..Len(bot.updates) :
        /\ bot'.updates[n].entry = bot.updates[n].entry
        /\ bot.updates[n].state # "pending" => bot'.updates[n] = bot.updates[n]
        /\ bot'.updates[n].state # bot.updates[n].state =>
             /\ Len(bot'.updates) = Len(bot.updates)
             /\ bot'.invoked = bot.invoked

C24_BankFollowsPolicy ==
    \A n \in 1..Len(bot.updates) :
        (bot.updates[n].direction = "bank" /\ Adjusting) =>
            /\ EntryOfRun(n).autoprice = FALSE
            /\ EntryOfRun(n).buy # <<[keys |-> 0, metal |-> bot.keyPrices.buy.metal]>>
            /\ EntryOfRun(n).sell # <<[keys |-> 0, metal |-> bot.keyPrices.sell.metal]>>

\* ---------------------------------------------------------------------------
\* Properties of the extraction against the label scheme (SpecExtract)
\* ---------------------------------------------------------------------------

\* the labels of a path below the craftable level
LabelsBelow(p) == {p[k] : k \in 4..Len(p)}

\* the attribute record the label scheme of buildPricePath / getPriceKeys
\* assigns to base id d and path p, read backwards
InverseOfPath(d, p) ==
    LET labels == LabelsBelow(p)
        quality == NumberOf(p[1])
    IN  [defindex |-> d, quality |-> quality,
         tradable |-> p[2] = "Tradable", craftable |-> p[3] = "Craftable",
         killstreak |-> IF "Professional Killstreak" \in labels THEN 3
                        ELSE IF "Specialized Killstreak" \in labels THEN 2
                        ELSE IF "Killstreak" \in labels THEN 1 ELSE 0,
         quality2 |-> IF "Strange" \in labels THEN Some(11) ELSE None,
         australium |-> "Australium" \in labels,
         festive |-> "Festive" \in labels,
         effect |-> IF quality = 5 /\ \E l \in labels : IsNumericKey(l)
                    THEN Some(NumberOf(CHOOSE l \in labels : IsNumericKey(l)))
                    ELSE None]

\* the price lists of the held catalog that hold an entry: entry e, base id
\* number d, path p
HeldLists ==
    {t \in UNION {{<<e, d, p>> : d \in 1..Len(HeldItems[e].defindex), p \in DOMAIN HeldItems[e].prices} :
                    e \in 1..Len(HeldItems)} :
        Len(HeldItems[t[1]].prices[t[3]]) > 0}

EmittedKeys == {response[1].items[i].sku : i \in 1..Len(response[1].items)}

\* how many levels below the craftable level a list may sit and still be visited
DepthLimit == IF variant = "ts" THEN 6 ELSE 10
DepthOf(p) == Len(p) - 3

\* the lists the traversal reaches: at or below the craftable level, within
\* the depth limit
VisitedLists == {t \in HeldLists : DepthOf(t[3]) \in 0..DepthLimit}

\* C21: the keys getPricelist emits are the label scheme read backwards: every
\* price list the traversal reaches is emitted under the record its path spells
\* (killstreak tier of the killstreak label, strange / australium / festive iff
\* the label was traversed, for quality 5 the effect of the numeric label), and
\* nothing is emitted under any other key.
C21_AttributesInvertLabels ==
    Extracted =>
        EmittedKeys = {InverseOfPath(HeldItems[t[1]].defindex[t[2]], t[3]) : t \in VisitedLists}

\* the leaves handed to addItemToList for the price list t = <<e, d, p>>
LeavesFrom(t) ==
    {n \in 1..Len(HeldLeaves) :
        /\ HeldLeaves[n].priceEntry = HeldItems[t[1]].prices[t[3]][1]
        /\ HeldLeaves[n].baseSKU.defindex = HeldItems[t[1]].defindex[t[2]]}

\* C22: getPricelist emits an item for every price list of every entry's price
\* tree that sits within the depth limit, at whatever level of the tree the
\* list sits (a duplicate key being represented by its first leaf), and visits
\* no list nested deeper than the limit.
C22_EveryLeafEmitted ==
    Extracted =>
        \A t \in HeldLists :
            IF DepthOf(t[3]) <= DepthLimit
            THEN \E n \in LeavesFrom(t) : KeyOf(HeldLeaves[n]) \in EmittedKeys
            ELSE LeavesFrom(t) = {}

\* ---------------------------------------------------------------------------
\* Extraction runs with a codec that throws (SpecReject): as SpecExtract, with
\* SKU.fromObject throwing on the record of one leaf of the held catalog
\* ---------------------------------------------------------------------------
InitReject ==
    /\ variant \in Variants
    /\ now = 0
    /\ \E items \in Catalogs :
        /\ HoldFresh(items)
        /\ \E n \in 1..Len(LeavesOf(variant, items, 1)) :
             codec = {FullSKU(LeavesOf(variant, items, 1)[n].baseSKU,
                              LeavesOf(variant, items, 1)[n].attributes)}
    /\ calls = <<>>
    /\ log = "none"
    /\ parsed = None
    /\ response = None
    /\ bot = None

NextReject == ExtractAll

SpecReject == InitReject /\ [][NextReject]_vars

\* the leaves of the held catalog the codec accepts, in traversal order
AcceptedLeaves == SelectSeq(HeldLeaves, LAMBDA leaf : KeyOf(leaf) \notin codec)

\* C23: a leaf whose record the codec rejects is skipped and nothing else
\* changes: no item carries a rejected key, and the list returned is the list
\* that the accepted leaves alone give.
C23_RejectedLeafSkipped ==
    Extracted =>
        /\ EmittedKeys \cap codec = {}
        /\ response[1].items
             = AddLeaves(variant, AcceptedLeaves, 1, [items |-> <<>>, processedSKUs |-> {}], {}).items

\* the first leaf of the traversal was rejected and a later leaf was emitted
C23_Witness ==
    /\ Extracted /\ codec # {}
    /\ Len(HeldLeaves) >= 2 /\ KeyOf(HeldLeaves[1]) \in codec
    /\ Len(response[1].items) = 1
    /\ \E n \in 2..Len(HeldLeaves) : response[1].items[1].sku = KeyOf(HeldLeaves[n])

\* ---------------------------------------------------------------------------
\* Resolver against extractor on one snapshot (SpecExtract)
\* ---------------------------------------------------------------------------

\* C30: for every item getPricelist emits from the held catalog, getPrice of
\* the item's key on the same catalog returns a price, with the same buy and
\* the same sell value.
C30_ResolverAgreesWithExtractor ==
    Extracted =>
        \A i \in 1..Len(response[1].items) :
            LET item == response[1].items[i]
                resp == getPriceHeld(item.sku)
            IN  /\ resp.buy # None /\ resp.sell # None
                /\ resp.buy[1] = item.buy
                /\ resp.sell[1] = item.sell

\* ---------------------------------------------------------------------------
\* The label path of a lookup (SpecResolve)
\* ---------------------------------------------------------------------------

\* the labels getPrice descends for a record, in order: buildPricePath and the
\* effect step (ts); the quality / tradable / craftable labels followed by
\* getPriceKeys, or by the effect id alone in handleUnusualPrice (p3)
LookupPath(sku) ==
    IF variant = "ts"
    THEN buildPricePath(sku) \o (IF sku.effect # None THEN <<ToString(sku.effect[1])>> ELSE <<>>)
    ELSE IF sku.quality = 5 /\ HasEffect(sku)
         THEN <<"5", TradableLabel(sku), CraftableLabel(sku), ToString(sku.effect[1])>>
         ELSE <<QualityLabel(sku), TradableLabel(sku), CraftableLabel(sku)>> \o getPriceKeys(sku)

\* C27: for every supported record, quality 0 included, the label path of the
\* lookup is the record's own quality, then the tradable, craftable,
\* killstreak, quality2, australium and festive labels, with the effect id
\* last only for quality 5 with an effect; and a price that is returned comes
\* from a list under the record's own quality label.
C27_OwnQualityPath ==
    Looked =>
        /\ LookupPath(parsed[1]) = ExactPath(parsed[1])
        /\ response[1].buy # None =>
             \E n \in 1..Len(HeldItems) : \E p \in DOMAIN HeldItems[n].prices :
                /\ p[1] = ToString(parsed[1].quality)
                /\ \E i \in 1..Len(HeldItems[n].prices[p]) :
                     BuyOf(HeldItems[n].prices[p][i]) = response[1].buy

\* ---------------------------------------------------------------------------
\* Properties of the cache under interleaved calls (Spec)
\* ---------------------------------------------------------------------------

\* C25: getPrice and getPricelist never modify a held catalog: the payload,
\* its timestamp and its index change only in a step in which a fetch succeeds
\* (the whole snapshot is swapped) or clearCache() runs, and the data a lookup
\* has obtained stays as it was until the lookup ends.
C25_CatalogChangesOnlyByFetchOrClear ==
    [][/\ CacheVars' # CacheVars => ((\E c \in Calls : HttpOk(c)) \/ clearCache)
       /\ \A c \in Calls :
            (calls[c].pc = "resume" /\ calls'[c].pc = "resume") =>
                calls'[c].data = calls[c].data]_vars

\* a getPrice and a getPricelist have both answered from the held catalog, which
\* is still held
C25_Witness ==
    /\ Held
    /\ \E c, d \in Calls :
        /\ calls[c].pc = "done" /\ calls[c].op = "getPrice" /\ calls[c].result[1].buy # None
        /\ calls[d].pc = "done" /\ calls[d].op = "getPricelist"
        /\ Len(calls[d].result[1].items) > 0
        /\ calls[d].result[1].items = extractItems(HeldItems)

\* C26: when the fetch fails and nothing is cached, what getPricelist gives its
\* caller differs from what it gives after extracting an empty catalog.
C26_FailureDistinguishable ==
    [][\A c \in Calls :
         (calls[c].op = "getPricelist" /\ ~Held /\ HttpFail(c)) =>
            <<calls'[c].outcome, calls'[c].result>>
               # <<getPricelistSettle(FALSE, <<>>).outcome, getPricelistSettle(FALSE, <<>>).result>>]_vars

\* C28: the timestamp of the held catalog never decreases while a catalog is
\* held, whatever the order in which overlapping requests complete.
C28_TimestampMonotone ==
    [][(Held /\ Held') => HeldTimestamp' >= HeldTimestamp]_vars

\* the index built from a payload, as the cache would hold it
IndexOf(items) ==
    Some([data |-> items, timestamp |-> 0, defindexMap |-> buildDefindexMap(items)])

\* C29: the answer getPrice gives after the await is the lookup of the data it
\* obtained under the index built from that same data, whatever other calls
\* and clearCache() did in between.
C29_IndexOfObtainedData ==
    [][\A c \in Calls :
         (calls[c].pc = "resume" /\ calls'[c].pc = "done") =>
            calls'[c].result =
               Some(IF variant = "ts"
                    THEN lookup_ts(IndexOf(calls[c].data[1]), calls[c].data[1], calls[c].key[1].sku)
                    ELSE lookup_p3(calls[c].data[1], calls[c].key[1].sku))]_vars

====
